---- MODULE Spec2Model ----
(***************************************************************************)
(* Model of the batch benchmarking driver src/src/Benchmark.cpp: image     *)
(* discovery, the per-image loop (3 timed Predict calls, character count,  *)
(* save, external scorer, PER_IMAGE_RESULT line), the statistics block and *)
(* the exit code.  The OCR engine, the result serializer and the scorer    *)
(* script are external collaborators: what they return or raise is chosen  *)
(* nondeterministically from small sets.                                   *)
(*                                                                         *)
(* Strings are sequences of tokens (one-character strings, and a few       *)
(* multi-character atoms such as the scorer's marker).  Doubles are exact  *)
(* rationals [n, d]; printing with std::fixed/setprecision(p) rounds to    *)
(* an integer number of 10^-p units.                                       *)
(***************************************************************************)
EXTENDS Integers, Sequences, FiniteSets, TLC

VARIABLES
    fs,               \* the file system: directory path -> entries in readdir() order
    sh,               \* the state of scripts/startup.sh
    err,              \* arguments warned about on standard error
    summary,          \* the values the statistics block computed
    argv,             \* argv[1..argc-1], each a path (sequence of characters)
    pc,               \* position of main(): start, init, run, save, score, stats, done
    imagePaths,       \* std::vector<std::string> imagePaths
    engine,           \* number of PaddleOCR objects constructed
    i,                \* loop index of the per-image loop, 0-based
    run,              \* loop index of the repetition loop, 0-based
    run_times,        \* std::vector<double> run_times of the current image
    final_outputs,    \* outputs retained for the current image
    total_chars,      \* int total_chars of the current image
    lastPredict,      \* the latest Predict call on the current image, and what
                      \* the first one returned (environment)
    avg_inference_ms, \* average of run_times of the current image
    avg_fps,          \* double avg_fps of the current image
    chars_per_second, \* double chars_per_second of the current image
    j,                \* loop index of the save loop, 0-based
    inference_times,  \* std::vector<double> inference_times
    successful_count,
    failed_count,
    disk,             \* JSON files under ./output/, by image stem
    predictCalls,     \* per position of imagePaths: Predict calls made
    scorerCalls,      \* per position of imagePaths: scorer commands run
    result_str,       \* std::string result_str: what the scorer command printed
    cmd_ok,           \* the value ExecuteCommand returned for the current image
    scorerRun,        \* how the scorer command of the current image ended (environment)
    fault,            \* per position: what went wrong while processing it
    out,              \* structured lines written to standard output
    exit_code         \* -1 while running, else the process's exit status

vars == <<fs, sh, err, summary, argv, pc, imagePaths, engine, i, run,
          run_times, final_outputs, total_chars, lastPredict,
          avg_inference_ms, avg_fps, chars_per_second, j, inference_times,
          successful_count, failed_count, disk, predictCalls, scorerCalls,
          result_str, cmd_ok, scorerRun, fault, out,
          exit_code>>

(***************************************************************************)
(* Bounds of the model.                                                    *)
(***************************************************************************)
MaxArgs == 2

\* the most images of a batch whose statistics are computed
MaxSamples == 3

\* the most files a generated directory tree holds
MaxTreeFiles == 3

(***************************************************************************)
(* Strings.                                                                *)
(***************************************************************************)
npos == 0

\* std::string::find(ch, from): least index >= from holding ch, else npos.
\* Indices are 1-based here; `from` is the 1-based index to start at.
Find(s, ch, from) ==
    LET hits == {k \in from..Len(s) : s[k] = ch}
    IN  IF hits = {} THEN npos ELSE CHOOSE k \in hits : \A m \in hits : k <= m

\* std::string::find_last_of(ch)
FindLastOf(s, ch) ==
    LET hits == {k \in 1..Len(s) : s[k] = ch}
    IN  IF hits = {} THEN npos ELSE CHOOSE k \in hits : \A m \in hits : k >= m

\* std::string::find_first_of(set, from)
FindFirstOf(s, chars, from) ==
    LET hits == {k \in from..Len(s) : s[k] \in chars}
    IN  IF hits = {} THEN npos ELSE CHOOSE k \in hits : \A m \in hits : k <= m

\* std::string::find(needle, from) for a needle of one or more tokens
FindSeq(s, needle, from) ==
    LET hits == {k \in from..(Len(s) - Len(needle) + 1) :
                    SubSeq(s, k, k + Len(needle) - 1) = needle}
    IN  IF hits = {} THEN npos ELSE CHOOSE k \in hits : \A m \in hits : k <= m

\* s.substr(from) with a 1-based from
Substr(s, from) == SubSeq(s, from, Len(s))

\* ::tolower on the characters the fixture uses
ToLower(c) ==
    CASE c = "P" -> "p" [] c = "N" -> "n" [] c = "G" -> "g"
      [] c = "B" -> "b" [] c = "M" -> "m" [] c = "J" -> "j"
      [] c = "E" -> "e" [] c = "T" -> "t" [] c = "I" -> "i"
      [] c = "F" -> "f"
      [] OTHER -> c

LowerStr(s) == [k \in 1..Len(s) |-> ToLower(s[k])]

(***************************************************************************)
(* The file system.  fs maps the path of each directory to its entries in  *)
(* readdir() order; an entry has a name and the kind stat() reports for    *)
(* it: "dir", "file" (a regular file) or "other".  The working directory   *)
(* has the empty path.                                                     *)
(***************************************************************************)
Cwd == << >>

Join(dir, name) == IF dir = Cwd THEN name ELSE dir \o <<"/">> \o name

Dot == [name |-> <<".">>, kind |-> "dir"]
DotDot == [name |-> <<".", ".">>, kind |-> "dir"]

\* what stat(path) finds: the kind of the entry of that name in the
\* directory the path leads to, or "none" when there is none
Kind(path) ==
    LET slash == FindLastOf(path, "/")
        dir == IF slash = npos THEN Cwd ELSE SubSeq(path, 1, slash - 1)
        name == IF slash = npos THEN path ELSE Substr(path, slash + 1)
    IN  IF dir \notin DOMAIN fs THEN "none"
        ELSE LET hits == {k \in 1..Len(fs[dir]) : fs[dir][k].name = name}
             IN  IF hits = {} THEN "none"
                 ELSE fs[dir][CHOOSE k \in hits : TRUE].kind

(***************************************************************************)
(* The file system of a benchmark run: a directory d holding a text file   *)
(* and a subdirectory s with one image, a regular image file x.bmp, and a  *)
(* path q that does not exist.                                             *)
(***************************************************************************)
PathD == <<"d">>
PathDS == <<"d", "/", "s">>
PathDN == <<"d", "/", "n", ".", "t", "x", "t">>
PathDSA == <<"d", "/", "s", "/", "a", ".", "P", "N", "G">>
PathX == <<"x", ".", "b", "m", "p">>
PathQ == <<"q">>

RunFs ==
    (Cwd :> << [name |-> <<"d">>, kind |-> "dir"],
               [name |-> PathX, kind |-> "file"] >>)
    @@ (PathD :> << Dot, DotDot,
                    [name |-> <<"n", ".", "t", "x", "t">>, kind |-> "file"],
                    [name |-> <<"s">>, kind |-> "dir"] >>)
    @@ (PathDS :> << Dot,
                     [name |-> <<"a", ".", "P", "N", "G">>, kind |-> "file"],
                     DotDot >>)

\* readdir() order of a directory, "." and ".." included
DirEntries(path) == [k \in 1..Len(fs[path]) |-> fs[path][k].name]

isDirectory(path) == Kind(path) = "dir"

isFile(path) == Kind(path) = "file"

\* the extension compared without lowering its case
isImageFileCaseSensitive(filepath) ==
    LET dot_pos == FindLastOf(filepath, ".")
    IN  IF dot_pos = npos THEN FALSE
        ELSE LET ext == Substr(filepath, dot_pos)
             IN  \/ ext = <<".", "j", "p", "g">>
                 \/ ext = <<".", "j", "p", "e", "g">>
                 \/ ext = <<".", "p", "n", "g">>
                 \/ ext = <<".", "b", "m", "p">>
                 \/ ext = <<".", "t", "i", "f", "f">>

isImageFile(filepath) ==
    LET dot_pos == FindLastOf(filepath, ".")
    IN  IF dot_pos = npos THEN FALSE
        ELSE LET ext == LowerStr(Substr(filepath, dot_pos))
             IN  \/ ext = <<".", "j", "p", "g">>
                 \/ ext = <<".", "j", "p", "e", "g">>
                 \/ ext = <<".", "p", "n", "g">>
                 \/ ext = <<".", "b", "m", "p">>
                 \/ ext = <<".", "t", "i", "f", "f">>

RECURSIVE collectImagesFromDirectory(_, _)
RECURSIVE WalkEntries(_, _, _, _)

\* the while loop over readdir(): entry k of dirPath onwards
WalkEntries(dirPath, entries, k, paths) ==
    IF k > Len(entries) THEN paths
    ELSE LET name == entries[k]
             fullPath == dirPath \o <<"/">> \o name
         IN  IF name = <<".">> \/ name = <<".", ".">>
             THEN WalkEntries(dirPath, entries, k + 1, paths)
             ELSE IF isDirectory(fullPath)
             THEN WalkEntries(dirPath, entries, k + 1,
                              collectImagesFromDirectory(fullPath, paths))
             ELSE IF isFile(fullPath) /\ isImageFile(fullPath)
             THEN WalkEntries(dirPath, entries, k + 1, Append(paths, fullPath))
             ELSE WalkEntries(dirPath, entries, k + 1, paths)

collectImagesFromDirectory(dirPath, paths) ==
    IF ~isDirectory(dirPath) THEN paths   \* opendir() failed
    ELSE WalkEntries(dirPath, DirEntries(dirPath), 1, paths)

\* the loop over the arguments leaving at the first invalid one
RECURSIVE CollectFromStopsAtInvalid(_, _, _)
CollectFromStopsAtInvalid(args, k, paths) ==
    IF k > Len(args) THEN paths
    ELSE LET path == args[k]
         IN  IF isDirectory(path)
             THEN CollectFromStopsAtInvalid(args, k + 1,
                                            collectImagesFromDirectory(path, paths))
             ELSE IF isFile(path) /\ isImageFile(path)
             THEN CollectFromStopsAtInvalid(args, k + 1, Append(paths, path))
             ELSE paths

RECURSIVE CollectFrom(_, _, _)

\* the for loop of collectImagePaths: argument k onwards
CollectFrom(args, k, paths) ==
    IF k > Len(args) THEN paths
    ELSE LET path == args[k]
         IN  IF isDirectory(path)
             THEN CollectFrom(args, k + 1, collectImagesFromDirectory(path, paths))
             ELSE IF isFile(path) /\ isImageFile(path)
             THEN CollectFrom(args, k + 1, Append(paths, path))
             ELSE CollectFrom(args, k + 1, paths)

\* the first occurrence of every path of `paths`, in order
RECURSIVE FirstOccurrences(_, _)
FirstOccurrences(paths, k) ==
    IF k > Len(paths) THEN << >>
    ELSE (IF \E m \in 1..(k - 1) : paths[m] = paths[k] THEN << >> ELSE <<paths[k]>>)
         \o FirstOccurrences(paths, k + 1)

\* a discovery that keeps every path once
collectImagePathsUnique(args) == FirstOccurrences(CollectFrom(args, 1, << >>), 1)

collectImagePaths(args) == CollectFrom(args, 1, << >>)

\* the else branch of that loop: the arguments named in a
\* "Warning: Skipping invalid path" line on standard error, in order
RECURSIVE SkippedFrom(_, _)
SkippedFrom(args, k) ==
    IF k > Len(args) THEN << >>
    ELSE LET path == args[k]
         IN  IF isDirectory(path) \/ (isFile(path) /\ isImageFile(path))
             THEN SkippedFrom(args, k + 1)
             ELSE <<path>> \o SkippedFrom(args, k + 1)

(***************************************************************************)
(* Doubles as exact rationals.                                             *)
(***************************************************************************)
RECURSIVE GCD(_, _)
GCD(a, b) == IF b = 0 THEN a ELSE GCD(b, a % b)

\* the rational n/d (d > 0), in lowest terms
Rat(n, d) ==
    LET g == GCD(IF n < 0 THEN -n ELSE n, d)
    IN  IF g = 0 THEN [n |-> 0, d |-> 1] ELSE [n |-> n \div g, d |-> d \div g]

RatAdd(a, b) == Rat(a.n * b.d + b.n * a.d, a.d * b.d)
RatDivInt(a, k) == Rat(a.n, a.d * k)
RatLess(a, b) == a.n * b.d < b.n * a.d
\* k / a for a > 0
IntDivRat(k, a) == Rat(k * a.d, a.n)

RECURSIVE Pow10(_)
Pow10(p) == IF p = 0 THEN 1 ELSE 10 * Pow10(p - 1)

\* operator<< under std::fixed << std::setprecision(p), for a >= 0:
\* the nearest multiple of 10^-p, as an integer count of 10^-p units
Fixed(a, p) == (2 * a.n * Pow10(p) + a.d) \div (2 * a.d)

RECURSIVE SumRat(_, _)
SumRat(s, k) == IF k > Len(s) THEN Rat(0, 1) ELSE RatAdd(s[k], SumRat(s, k + 1))

(***************************************************************************)
(* What Predict returns: a vector of outputs.  An output is represented by *)
(* the recognized transcripts it holds; Print() writes it as JSON.         *)
(***************************************************************************)
RecTextsKey == "\"rec_texts\": "

\* a transcript as it appears inside a JSON string
RECURSIVE Escape(_)
Escape(t) ==
    IF t = << >> THEN << >>
    ELSE (IF Head(t) \in {"\"", "\\"} THEN <<"\\", Head(t)>> ELSE <<Head(t)>>)
         \o Escape(Tail(t))

RECURSIVE JsonTexts(_, _)
JsonTexts(texts, k) ==
    IF k > Len(texts) THEN << >>
    ELSE (IF k > 1 THEN <<",", " ">> ELSE << >>)
         \o <<"\"">> \o Escape(texts[k]) \o <<"\"">> \o JsonTexts(texts, k + 1)

\* the text output->Print() writes for an output holding `texts`
PrintedJson(texts) ==
    <<"{", RecTextsKey, "[">> \o JsonTexts(texts, 1) \o <<"]", "}">>

\* the characters of `text` that are not a backslash
CountText(text) == Cardinality({k \in 1..Len(text) : text[k] # "\\"})

\* the while loop over the quoted strings of rec_texts_content, from pos
RECURSIVE CountQuoted(_, _)
CountQuoted(content, pos) ==
    LET q == Find(content, "\"", pos)
    IN  IF q = npos THEN 0
        ELSE LET end_quote == Find(content, "\"", q + 1)
             IN  IF end_quote = npos THEN 0
                 ELSE CountText(SubSeq(content, q + 1, end_quote - 1))
                      + CountQuoted(content, end_quote + 1)

\* the characters the driver counts in one printed output
CountOutput(json_output) ==
    LET rec_texts_pos == FindSeq(json_output, <<RecTextsKey, "[">>, 1)
    IN  IF rec_texts_pos = npos THEN 0
        ELSE LET array_start == Find(json_output, "[", rec_texts_pos)
                 array_end == Find(json_output, "]", array_start)
             IN  IF array_start = npos \/ array_end = npos THEN 0
                 ELSE CountQuoted(SubSeq(json_output, array_start + 1, array_end - 1), 1)

\* total_chars after the loop over final_outputs
RECURSIVE CountOutputs(_, _)
CountOutputs(outputs, k) ==
    IF k > Len(outputs) THEN 0
    ELSE CountOutput(PrintedJson(outputs[k])) + CountOutputs(outputs, k + 1)

\* the results the engine may return for an image: one output each
ResultA == << << <<"a", "b">> >> >>
ResultB == << << <<"a">>, <<"b">>, <<"c">> >> >>
PredictResults == {ResultA, ResultB}

\* the wall-clock durations (ms) a Predict call may take
Timings == {1, 2}

\* the repetition count of the inner loop
Repetitions == 3

(***************************************************************************)
(* The external scorer: whether the command ran and exited with status 0,  *)
(* and the text it wrote to standard output.                               *)
(***************************************************************************)
Marker == "SINGLE_ACC: "
AccKey == "\"character_accuracy\""

\* the numbers the scorer may print, and what std::stod reads from each
NumberTokens == {"0.5", "1.0"}
NumberValue(tok) == IF tok = "0.5" THEN Rat(1, 2) ELSE Rat(1, 1)

ScoredText(tok) ==
    <<"l", "o", "g", "\n", Marker, "{", AccKey, ":", " ", tok, ",", " ",
      "\"n\"", ":", " ", "2", "}", "\n">>
NoMarkerText == <<"T", "r", "a", "c", "e", "b", "a", "c", "k", "\n">>
NoKeyText == <<Marker, "{", "\"error\"", ":", " ", "\"e\"", "}", "\n">>
NullText == <<Marker, "{", AccKey, ":", " ", "null", "}", "\n">>

\* (popen worked and exit status, captured stdout) of one scorer command
ScorerOutcomes ==
    {[started |-> FALSE, status |-> 0, text |-> << >>],
     [started |-> TRUE, status |-> 1, text |-> NoMarkerText],
     [started |-> TRUE, status |-> 1, text |-> ScoredText("0.5")],
     [started |-> TRUE, status |-> 0, text |-> NoMarkerText],
     [started |-> TRUE, status |-> 0, text |-> NoKeyText],
     [started |-> TRUE, status |-> 0, text |-> NullText]}
    \cup {[started |-> TRUE, status |-> 0, text |-> ScoredText(tok)] : tok \in NumberTokens}

\* ExecuteCommand with the status of pclose() ignored
ExecuteCommandIgnoresStatus(o) == o.started

\* the return value of ExecuteCommand
ExecuteCommand(o) == o.started /\ o.status = 0

\* std::remove_if(..., ::isspace) + erase
RECURSIVE RemoveSpace(_)
RemoveSpace(str) ==
    IF str = << >> THEN << >>
    ELSE (IF Head(str) \in {" ", "\n", "\t", "\r"} THEN << >> ELSE <<Head(str)>>)
         \o RemoveSpace(Tail(str))

\* the text handed to std::stod, or "none" when acc keeps its initial 0.0
AccStr(text) ==
    LET json_start == FindSeq(text, <<Marker>>, 1)
        json_output == Substr(text, json_start + 1)
        acc_pos == FindSeq(json_output, <<AccKey, ":">>, 1)
        value_start == Find(json_output, ":", acc_pos) + 1
        value_end == FindFirstOf(json_output, {",", "}"}, value_start)
    IN  IF acc_pos = npos THEN "none"
        ELSE IF value_end = npos THEN "none"
        ELSE RemoveSpace(SubSeq(json_output, value_start, value_end - 1))

HasMarker(text) == FindSeq(text, <<Marker>>, 1) # npos

\* std::stod throws std::invalid_argument when no number starts the text
StodThrows(text) ==
    LET acc_str == AccStr(text)
    IN  acc_str # "none" /\ (acc_str = << >> \/ Head(acc_str) \notin NumberTokens)

\* acc keeping its initial 0.0 whatever the scorer printed
ParsedAccInitial(text) == Rat(0, 1)

\* the value of acc when the line is written
ParsedAcc(text) ==
    LET acc_str == AccStr(text)
    IN  IF acc_str = "none" THEN Rat(0, 1) ELSE NumberValue(Head(acc_str))

(***************************************************************************)
(* Per-image metrics and the structured lines.                             *)
(***************************************************************************)
\* the sum of run_times divided by one less than run_times.size()
AvgOfOneLess(times) ==
    RatDivInt(SumRat([k \in 1..Len(times) |-> Rat(times[k], 1)], 1), Len(times) - 1)

\* avg_inference_ms: the sum of run_times divided by run_times.size()
AvgOf(times) ==
    RatDivInt(SumRat([k \in 1..Len(times) |-> Rat(times[k], 1)], 1), Len(times))

\* frames per millisecond in place of frames per second
AvgFpsPerMillisecond(avg) ==
    IF RatLess(Rat(0, 1), avg) THEN IntDivRat(1, avg) ELSE Rat(0, 1)

AvgFps(avg) == IF RatLess(Rat(0, 1), avg) THEN IntDivRat(1000, avg) ELSE Rat(0, 1)

CharsPerSecond(chars, avg) ==
    IF RatLess(Rat(0, 1), avg) THEN IntDivRat(chars * 1000, avg) ELSE Rat(0, 1)

\* image_path with everything up to the last '/' erased
Filename(image_path) ==
    LET last_slash_pos == FindLastOf(image_path, "/")
    IN  IF last_slash_pos # npos THEN Substr(image_path, last_slash_pos + 1)
        ELSE image_path

\* one PER_IMAGE_RESULT line; pos is the position of the image in imagePaths
\* (not printed), acc in units of 10^-4
PerImageLine(pos, image_path, avg, chars, acc) ==
    [kind |-> "PER_IMAGE_RESULT",
     pos |-> pos,
     filename |-> Filename(image_path),
     inference_ms |-> Fixed(avg, 2),
     fps |-> Fixed(AvgFps(avg), 2),
     chars_per_second |-> Fixed(CharsPerSecond(chars, avg), 2),
     total_chars |-> chars,
     accuracy |-> acc]

\* the least and the greatest element of a non-empty list
RECURSIVE MinTime(_, _, _)
MinTime(times, k, min_time) ==
    IF k > Len(times) THEN min_time
    ELSE MinTime(times, k + 1, IF RatLess(times[k], min_time) THEN times[k] ELSE min_time)

RECURSIVE MaxTime(_, _, _)
MaxTime(times, k, max_time) ==
    IF k > Len(times) THEN max_time
    ELSE MaxTime(times, k + 1, IF RatLess(max_time, times[k]) THEN times[k] ELSE max_time)

\* the statistics with BATCH_FPS computed from the number of samples
StatisticsPerSample(times, succ, n) ==
    LET total_inference_time == SumRat(times, 1)
        avg_inference_time == RatDivInt(total_inference_time, Len(times))
    IN  [total_inference_time |-> total_inference_time,
         min_time |-> MinTime(times, 1, times[1]),
         max_time |-> MaxTime(times, 1, times[1]),
         avg_inference_time |-> avg_inference_time,
         avg_fps |-> IntDivRat(1000, avg_inference_time),
         total_fps |-> IntDivRat(Len(times) * 1000, total_inference_time),
         success_rate |-> Rat(100 * succ, n)]

\* the values of the statistics block over a non-empty inference_times
Statistics(times, succ, n) ==
    LET total_inference_time == SumRat(times, 1)
        avg_inference_time == RatDivInt(total_inference_time, Len(times))
    IN  [total_inference_time |-> total_inference_time,
         min_time |-> MinTime(times, 1, times[1]),
         max_time |-> MaxTime(times, 1, times[1]),
         avg_inference_time |-> avg_inference_time,
         avg_fps |-> IntDivRat(1000, avg_inference_time),
         total_fps |-> IntDivRat(succ * 1000, total_inference_time),
         success_rate |-> Rat(100 * succ, n)]

TimingLine(key, value) == [kind |-> "TIMING_INFO", key |-> key, value |-> value]

\* the six TIMING_INFO lines of the statistics block
TimingLines(times, succ, n) ==
    LET st == Statistics(times, succ, n)
    IN  << [kind |-> "TIMING_INFO", key |-> "INIT"],
           TimingLine("TOTAL_INFERENCE", Fixed(st.total_inference_time, 2)),
           TimingLine("AVG_INFERENCE", Fixed(st.avg_inference_time, 2)),
           TimingLine("AVG_FPS", Fixed(st.avg_fps, 2)),
           TimingLine("BATCH_FPS", Fixed(st.total_fps, 2)),
           TimingLine("SUCCESS_RATE", Fixed(st.success_rate, 2)) >>

(***************************************************************************)
(* main()                                                                  *)
(***************************************************************************)
ArgChoices == {PathD, PathQ}

ArgVectors == UNION {[1..n -> ArgChoices] : n \in 0..MaxArgs}

NoPredict == [pos |-> 0, run |-> 0, result |-> << >>, first |-> << >>]

NoScorer == [started |-> FALSE, status |-> 0, ran |-> FALSE]

NoSummary == [total_inference_time |-> Rat(0, 1), min_time |-> Rat(0, 1),
              max_time |-> Rat(0, 1), avg_inference_time |-> Rat(0, 1),
              avg_fps |-> Rat(0, 1), total_fps |-> Rat(0, 1),
              success_rate |-> Rat(0, 1)]

NoScript == [pc |-> "off"]

\* main() is entered: nothing has been computed yet
MainStarts ==
    /\ err = << >>
    /\ summary = NoSummary
    /\ pc = "start"
    /\ imagePaths = << >>
    /\ engine = 0
    /\ i = 0
    /\ run = 0
    /\ run_times = << >>
    /\ final_outputs = << >>
    /\ total_chars = 0
    /\ lastPredict = NoPredict
    /\ avg_inference_ms = Rat(0, 1)
    /\ avg_fps = Rat(0, 1)
    /\ chars_per_second = Rat(0, 1)
    /\ j = 0
    /\ inference_times = << >>
    /\ successful_count = 0
    /\ failed_count = 0
    /\ disk = << >>
    /\ predictCalls = << >>
    /\ scorerCalls = << >>
    /\ result_str = << >>
    /\ cmd_ok = FALSE
    /\ scorerRun = NoScorer
    /\ fault = << >>
    /\ out = << >>
    /\ exit_code = -1

Init ==
    /\ fs = RunFs
    /\ sh = NoScript
    /\ argv \in ArgVectors
    /\ MainStarts

\* the variables that live inside one iteration of the per-image loop
locals == <<run, run_times, final_outputs, total_chars, lastPredict,
            avg_inference_ms, avg_fps, chars_per_second, j, result_str,
            cmd_ok, scorerRun>>

\* main returning 1 only when more than one image failed
ExitCodeOffByOne(failed) == IF failed > 1 THEN 1 ELSE 0

\* the value main returns after the statistics block
ExitCode(failed) == IF failed > 0 THEN 1 ELSE 0

\* the outputs of every repetition replacing the kept ones
RetainedLast(r, outputs, kept) == outputs

\* the outputs kept after repetition `r` returned `outputs`
Retained(r, outputs, kept) == IF r = 0 THEN outputs ELSE kept

\* total_chars after repetition `r` returned `outputs`
Counted(r, outputs, chars) == IF r = 0 THEN CountOutputs(outputs, 1) ELSE chars

\* the body of the per-image loop ends (normally, by continue, or in the
\* catch block): the locals go out of scope and the for loop steps
EndIteration ==
    /\ i' = i + 1
    /\ run' = 0
    /\ run_times' = << >>
    /\ final_outputs' = << >>
    /\ total_chars' = 0
    /\ lastPredict' = NoPredict
    /\ avg_inference_ms' = Rat(0, 1)
    /\ avg_fps' = Rat(0, 1)
    /\ chars_per_second' = Rat(0, 1)
    /\ j' = 0
    /\ result_str' = << >>
    /\ cmd_ok' = FALSE
    /\ scorerRun' = NoScorer
    /\ pc' = IF i + 1 < Len(imagePaths) THEN "run" ELSE "stats"

\* argc < 2: usage message
Usage ==
    /\ pc = "start"
    /\ Len(argv) + 1 < 2
    /\ pc' = "done"
    /\ exit_code' = 1
    /\ UNCHANGED <<fs, sh, err, summary, argv, imagePaths, engine, i, locals,
                   inference_times, successful_count, failed_count, disk,
                   predictCalls, scorerCalls, fault, out>>

\* collectImagePaths and the empty check
Discover ==
    /\ pc = "start"
    /\ Len(argv) + 1 >= 2
    /\ err' = SkippedFrom(argv, 1)
    /\ LET paths == collectImagePaths(argv)
       IN  /\ imagePaths' = paths
           /\ predictCalls' = [p \in 1..Len(paths) |-> 0]
           /\ scorerCalls' = [p \in 1..Len(paths) |-> 0]
           /\ fault' = [p \in 1..Len(paths) |-> "none"]
           /\ IF paths = << >>
              THEN pc' = "done" /\ exit_code' = 1
              ELSE pc' = "init" /\ exit_code' = exit_code
    /\ UNCHANGED <<fs, sh, summary, argv, engine, i, locals, inference_times,
                   successful_count, failed_count, disk, out>>

\* the engine built as a temporary and then copied into infer: two objects
InitEngineCopies ==
    /\ pc = "init"
    /\ engine' = engine + 2
    /\ pc' = "run"
    /\ UNCHANGED <<fs, sh, err, summary, argv, imagePaths, i, locals,
                   inference_times, successful_count, failed_count, disk,
                   predictCalls, scorerCalls, fault, out, exit_code>>

\* auto infer = PaddleOCR(params) returns
InitEngine ==
    /\ pc = "init"
    /\ engine' = engine + 1
    /\ pc' = "run"
    /\ UNCHANGED <<fs, sh, err, summary, argv, imagePaths, i, run, run_times,
                   final_outputs, total_chars, lastPredict, avg_inference_ms,
                   avg_fps, chars_per_second, j, result_str, cmd_ok,
                   scorerRun, inference_times, successful_count, failed_count,
                   disk, predictCalls, scorerCalls, fault, out, exit_code>>

\* a failed construction that is logged and ignored
InitEngineFailsContinues ==
    /\ pc = "init"
    /\ pc' = "run"
    /\ UNCHANGED <<fs, sh, err, summary, argv, imagePaths, engine, i, locals,
                   inference_times, successful_count, failed_count, disk,
                   predictCalls, scorerCalls, fault, out, exit_code>>

\* the constructor raises outside any try block: std::terminate, SIGABRT
InitEngineFails ==
    /\ pc = "init"
    /\ pc' = "done"
    /\ exit_code' = 134
    /\ UNCHANGED <<fs, sh, err, summary, argv, imagePaths, engine, i, locals,
                   inference_times, successful_count, failed_count, disk,
                   predictCalls, scorerCalls, fault, out>>

\* one repetition: infer.Predict(image_path) returns `result` after t ms
Predict(t, result) ==
    /\ pc = "run"
    /\ predictCalls' = [predictCalls EXCEPT ![i + 1] = @ + 1]
    /\ lastPredict' = [pos |-> i + 1, run |-> run, result |-> result,
                       first |-> IF run = 0 THEN result ELSE lastPredict.first]
    /\ run_times' = Append(run_times, t)
    /\ final_outputs' = Retained(run, result, final_outputs)
    /\ total_chars' = Counted(run, result, total_chars)
    /\ run' = run + 1
    /\ IF run + 1 < Repetitions
       THEN /\ pc' = "run"
            /\ UNCHANGED <<avg_inference_ms, avg_fps, chars_per_second,
                           inference_times>>
       ELSE /\ avg_inference_ms' = AvgOf(run_times')
            /\ avg_fps' = AvgFps(avg_inference_ms')
            /\ chars_per_second' = CharsPerSecond(total_chars', avg_inference_ms')
            /\ inference_times' = Append(inference_times, avg_inference_ms')
            /\ pc' = IF Len(final_outputs') > 0 THEN "save" ELSE "score"
    /\ UNCHANGED <<fs, sh, err, summary, argv, imagePaths, engine, i, j,
                   result_str, cmd_ok, scorerRun, successful_count,
                   failed_count, disk, scorerCalls, fault, out, exit_code>>

\* a catch block placed around the whole for loop: the batch ends
PredictRaisesEndsLoop ==
    /\ pc = "run"
    /\ predictCalls' = [predictCalls EXCEPT ![i + 1] = @ + 1]
    /\ failed_count' = failed_count + 1
    /\ fault' = [fault EXCEPT ![i + 1] = "predict"]
    /\ pc' = "stats"
    /\ UNCHANGED <<fs, sh, err, summary, argv, imagePaths, engine, i, locals,
                   inference_times, successful_count, disk, scorerCalls, out,
                   exit_code>>

\* a catch block placed inside the repetition loop: the image is tried again
PredictRaisesRetries ==
    /\ pc = "run"
    /\ predictCalls' = [predictCalls EXCEPT ![i + 1] = @ + 1]
    /\ failed_count' = failed_count + 1
    /\ fault' = [fault EXCEPT ![i + 1] = "predict"]
    /\ UNCHANGED <<fs, sh, err, summary, argv, pc, imagePaths, engine, i,
                   locals, inference_times, successful_count, disk,
                   scorerCalls, out, exit_code>>

\* infer.Predict(image_path) raises: the catch block
PredictRaises ==
    /\ pc = "run"
    /\ predictCalls' = [predictCalls EXCEPT ![i + 1] = @ + 1]
    /\ failed_count' = failed_count + 1
    /\ fault' = [fault EXCEPT ![i + 1] = "predict"]
    /\ EndIteration
    /\ UNCHANGED <<fs, sh, err, summary, argv, imagePaths, engine,
                   inference_times, successful_count, disk, scorerCalls, out,
                   exit_code>>

\* Print, SaveToImg and SaveToJson of final_outputs[j] return
Save ==
    /\ pc = "save"
    /\ LET name == Filename(imagePaths[i + 1])
       IN  disk' = [f \in DOMAIN disk \cup {name} |->
                       IF f = name THEN final_outputs[j + 1] ELSE disk[f]]
    /\ j' = j + 1
    /\ pc' = IF j + 1 < Len(final_outputs) THEN "save" ELSE "score"
    /\ UNCHANGED <<fs, sh, err, summary, argv, imagePaths, engine, i, run,
                   run_times, final_outputs, total_chars, lastPredict,
                   avg_inference_ms, avg_fps, chars_per_second, result_str,
                   cmd_ok, scorerRun, inference_times, successful_count,
                   failed_count, predictCalls, scorerCalls, fault, out,
                   exit_code>>

\* a failed save that is logged and skipped: the scorer still runs
SaveRaisesStillScores ==
    /\ pc = "save"
    /\ pc' = "score"
    /\ UNCHANGED <<fs, sh, err, summary, argv, imagePaths, engine, i, locals,
                   inference_times, successful_count, failed_count, disk,
                   predictCalls, scorerCalls, fault, out, exit_code>>

\* the save loop outside the try block: the exception ends the process
SaveRaisesEndsBatch ==
    /\ pc = "save"
    /\ failed_count' = failed_count + 1
    /\ fault' = [fault EXCEPT ![i + 1] = "save"]
    /\ pc' = "done"
    /\ exit_code' = 1
    /\ UNCHANGED <<fs, sh, err, summary, argv, imagePaths, engine, i, locals,
                   inference_times, successful_count, disk, predictCalls,
                   scorerCalls, out>>

\* Print, SaveToImg or SaveToJson raises before the JSON is written
SaveRaises ==
    /\ pc = "save"
    /\ failed_count' = failed_count + 1
    /\ fault' = [fault EXCEPT ![i + 1] = "save"]
    /\ EndIteration
    /\ UNCHANGED <<fs, sh, err, summary, argv, imagePaths, engine,
                   inference_times, successful_count, disk, predictCalls,
                   scorerCalls, out, exit_code>>

\* ExecuteCommand(command, &result_str) returns
RunScorer(o) ==
    /\ pc = "score"
    /\ scorerCalls' = [scorerCalls EXCEPT ![i + 1] = @ + 1]
    /\ result_str' = o.text
    /\ cmd_ok' = ExecuteCommand(o)
    /\ scorerRun' = [started |-> o.started, status |-> o.status, ran |-> TRUE]
    /\ pc' = "parse"
    /\ UNCHANGED <<fs, sh, err, summary, argv, imagePaths, engine, i, run,
                   run_times, final_outputs, total_chars, lastPredict,
                   avg_inference_ms, avg_fps, chars_per_second, j,
                   inference_times, successful_count, failed_count, disk,
                   predictCalls, fault, out, exit_code>>

\* the !ExecuteCommand(...) block without its PER_IMAGE_RESULT line
RecordExecFailedSilent ==
    /\ pc = "parse"
    /\ ~cmd_ok
    /\ fault' = [fault EXCEPT ![i + 1] = "scorer_exec"]
    /\ EndIteration
    /\ UNCHANGED <<fs, sh, err, summary, argv, imagePaths, engine,
                   inference_times, successful_count, failed_count, disk,
                   predictCalls, scorerCalls, out, exit_code>>

\* the !ExecuteCommand(...) block without its continue: control falls
\* through to the search for the marker
RecordExecFailedFallsThrough ==
    /\ pc = "parse"
    /\ ~cmd_ok
    /\ out' = Append(out, PerImageLine(i + 1, imagePaths[i + 1],
                                       avg_inference_ms, total_chars, 0))
    /\ cmd_ok' = TRUE
    /\ UNCHANGED <<fs, sh, err, summary, argv, pc, imagePaths, engine, i, run,
                   run_times, final_outputs, total_chars, lastPredict,
                   avg_inference_ms, avg_fps, chars_per_second, j, result_str,
                   scorerRun, inference_times, successful_count, failed_count,
                   disk, predictCalls, scorerCalls, fault, exit_code>>

\* a failed scorer command that is run again until it succeeds
RecordExecFailedRetries ==
    /\ pc = "parse"
    /\ ~cmd_ok
    /\ pc' = "score"
    /\ UNCHANGED <<fs, sh, err, summary, argv, imagePaths, engine, i, locals,
                   inference_times, successful_count, failed_count, disk,
                   predictCalls, scorerCalls, fault, out, exit_code>>

\* !ExecuteCommand(...): line with accuracy 0.0, then continue
RecordExecFailed ==
    /\ pc = "parse"
    /\ ~cmd_ok
    /\ out' = Append(out, PerImageLine(i + 1, imagePaths[i + 1],
                                       avg_inference_ms, total_chars, 0))
    /\ fault' = [fault EXCEPT ![i + 1] = "scorer_exec"]
    /\ EndIteration
    /\ UNCHANGED <<fs, sh, err, summary, argv, imagePaths, engine,
                   inference_times, successful_count, failed_count, disk,
                   predictCalls, scorerCalls, exit_code>>

\* the line of a scored image kept in memory for a table printed later
RecordScoredBuffered ==
    /\ pc = "parse"
    /\ cmd_ok
    /\ HasMarker(result_str)
    /\ ~StodThrows(result_str)
    /\ successful_count' = successful_count + 1
    /\ fault' = [fault EXCEPT ![i + 1] =
                    IF AccStr(result_str) = "none" THEN "no_value" ELSE "none"]
    /\ EndIteration
    /\ UNCHANGED <<fs, sh, err, summary, argv, imagePaths, engine,
                   inference_times, failed_count, disk, predictCalls,
                   scorerCalls, out, exit_code>>

\* the marker is found and acc is parsed: line, successful_count++
RecordScored ==
    /\ pc = "parse"
    /\ cmd_ok
    /\ HasMarker(result_str)
    /\ ~StodThrows(result_str)
    /\ out' = Append(out, PerImageLine(i + 1, imagePaths[i + 1],
                                       avg_inference_ms, total_chars,
                                       Fixed(ParsedAcc(result_str), 4)))
    /\ successful_count' = successful_count + 1
    /\ fault' = [fault EXCEPT ![i + 1] =
                    IF AccStr(result_str) = "none" THEN "no_value" ELSE "none"]
    /\ EndIteration
    /\ UNCHANGED <<fs, sh, err, summary, argv, imagePaths, engine,
                   inference_times, failed_count, disk, predictCalls,
                   scorerCalls, exit_code>>

\* the marker is found and std::stod raises: the catch block
RecordStodRaises ==
    /\ pc = "parse"
    /\ cmd_ok
    /\ HasMarker(result_str)
    /\ StodThrows(result_str)
    /\ failed_count' = failed_count + 1
    /\ fault' = [fault EXCEPT ![i + 1] = "bad_value"]
    /\ EndIteration
    /\ UNCHANGED <<fs, sh, err, summary, argv, imagePaths, engine,
                   inference_times, successful_count, disk, predictCalls,
                   scorerCalls, out, exit_code>>

\* a scorer output without the marker makes the scorer run again
RecordNoMarkerRetries ==
    /\ pc = "parse"
    /\ cmd_ok
    /\ ~HasMarker(result_str)
    /\ pc' = "score"
    /\ UNCHANGED <<fs, sh, err, summary, argv, imagePaths, engine, i, locals,
                   inference_times, successful_count, failed_count, disk,
                   predictCalls, scorerCalls, fault, out, exit_code>>

\* the marker is not found: two error messages, successful_count++
RecordNoMarker ==
    /\ pc = "parse"
    /\ cmd_ok
    /\ ~HasMarker(result_str)
    /\ successful_count' = successful_count + 1
    /\ fault' = [fault EXCEPT ![i + 1] = "no_marker"]
    /\ EndIteration
    /\ UNCHANGED <<fs, sh, err, summary, argv, imagePaths, engine,
                   inference_times, failed_count, disk, predictCalls,
                   scorerCalls, out, exit_code>>

\* the statistics block placed at the end of the loop body: it runs as soon
\* as one image has been processed
StatsInsideLoop ==
    /\ \/ pc = "stats"
       \/ pc = "run" /\ run = 0 /\ i >= 1
    /\ summary' = IF inference_times # << >>
                      /\ \A k \in 1..Len(out) : out[k].kind # "TIMING_INFO"
                  THEN Statistics(inference_times, successful_count,
                                  Len(imagePaths))
                  ELSE summary
    /\ out' = IF inference_times # << >>
                 /\ \A k \in 1..Len(out) : out[k].kind # "TIMING_INFO"
              THEN out \o TimingLines(inference_times, successful_count,
                                      Len(imagePaths))
              ELSE out
    /\ IF pc = "stats"
       THEN exit_code' = ExitCode(failed_count) /\ pc' = "done"
       ELSE UNCHANGED <<exit_code, pc>>
    /\ UNCHANGED <<fs, sh, err, argv, imagePaths, engine, i, locals,
                   inference_times, successful_count, failed_count, disk,
                   predictCalls, scorerCalls, fault>>

\* the statistics block guarded by the number of successful images
StatsGuardsOnSuccess ==
    /\ pc = "stats"
    /\ summary' = IF successful_count > 0 /\ inference_times # << >>
                  THEN Statistics(inference_times, successful_count,
                                  Len(imagePaths))
                  ELSE summary
    /\ out' = IF successful_count > 0 /\ inference_times # << >>
              THEN out \o TimingLines(inference_times, successful_count,
                                      Len(imagePaths))
              ELSE out
    /\ exit_code' = ExitCode(failed_count)
    /\ pc' = "done"
    /\ UNCHANGED <<fs, sh, err, argv, imagePaths, engine, i, locals,
                   inference_times, successful_count, failed_count, disk,
                   predictCalls, scorerCalls, fault>>

\* the statistics block and return
Stats ==
    /\ pc = "stats"
    /\ summary' = IF inference_times # << >>
                  THEN Statistics(inference_times, successful_count,
                                  Len(imagePaths))
                  ELSE summary
    /\ out' = IF inference_times # << >>
              THEN out \o TimingLines(inference_times, successful_count,
                                      Len(imagePaths))
              ELSE out
    /\ exit_code' = ExitCode(failed_count)
    /\ pc' = "done"
    /\ UNCHANGED <<fs, sh, err, argv, imagePaths, engine, i, locals,
                   inference_times, successful_count, failed_count, disk,
                   predictCalls, scorerCalls, fault>>

Next ==
    \/ Usage
    \/ Discover
    \/ InitEngine
    \/ InitEngineFails
    \/ \E t \in Timings, result \in PredictResults : Predict(t, result)
    \/ PredictRaises
    \/ Save
    \/ SaveRaises
    \/ \E o \in ScorerOutcomes : RunScorer(o)
    \/ RecordExecFailed
    \/ RecordScored
    \/ RecordStodRaises
    \/ RecordNoMarker
    \/ Stats

Spec == Init /\ [][Next]_vars

(***************************************************************************)
(* Discovery alone, over a family of directory trees and over argument     *)
(* vectors of every kind.  A tree is the directory t with a subdirectory   *)
(* u, which has a subdirectory named v.png; the three hold at most         *)
(* MaxTreeFiles of the files below between them.                           *)
(***************************************************************************)
PathT == <<"t">>
PathTU == <<"t", "/", "u">>
PathTUV == <<"t", "/", "u", "/", "v", ".", "p", "n", "g">>

FileChoices ==
    << [name |-> <<"a", ".", "j", "p", "g">>, kind |-> "file"],
       [name |-> <<"b", ".", "J", "P", "E", "G">>, kind |-> "file"],
       [name |-> <<"c", ".", "P", "n", "G">>, kind |-> "file"],
       [name |-> <<"e", ".", "b", "m", "p">>, kind |-> "file"],
       [name |-> <<"f", ".", "T", "i", "f", "f">>, kind |-> "file"],
       [name |-> <<"g", ".", "t", "x", "t">>, kind |-> "file"],
       [name |-> <<"h">>, kind |-> "file"],
       [name |-> <<"k", ".", "t", "i", "f">>, kind |-> "file"],
       [name |-> <<"m", ".", "j", "p", "g", ".", "b", "a", "k">>, kind |-> "file"],
       [name |-> <<"p", ".", "p", "n", "g">>, kind |-> "other"] >>

TreeDirSeq == <<PathT, PathTU, PathTUV>>

\* a placement puts file number f of FileChoices into directory number d
Slots == (1..Len(FileChoices)) \X (1..Len(TreeDirSeq))

RECURSIVE Placements(_)
Placements(n) ==
    IF n = 0 THEN {{}}
    ELSE LET fewer == Placements(n - 1)
         IN  fewer \cup {P \cup {x} : P \in fewer, x \in Slots}

\* the files placed into directory number d, in the order of FileChoices
RECURSIVE FilesOf(_, _, _)
FilesOf(P, d, f) ==
    IF f > Len(FileChoices) THEN << >>
    ELSE (IF <<f, d>> \in P THEN <<FileChoices[f]>> ELSE << >>) \o FilesOf(P, d, f + 1)

Listing(P, d, subdirs) == <<Dot>> \o FilesOf(P, d, 1) \o <<DotDot>> \o subdirs

TreeFs(P) ==
    (Cwd :> << [name |-> PathT, kind |-> "dir"] >>)
    @@ (PathT :> Listing(P, 1, << [name |-> <<"u">>, kind |-> "dir"] >>))
    @@ (PathTU :> Listing(P, 2, << [name |-> <<"v", ".", "p", "n", "g">>, kind |-> "dir"] >>))
    @@ (PathTUV :> Listing(P, 3, << >>))

Trees == {TreeFs(P) : P \in Placements(MaxTreeFiles)}

DiscoverArgChoices == {PathD, PathDN, PathDSA, PathX, PathQ}

DiscoverArgVectors == UNION {[1..n -> DiscoverArgChoices] : n \in 1..MaxArgs}

InitDiscover ==
    /\ \/ fs \in Trees /\ argv = <<PathT>>
       \/ fs = RunFs /\ argv \in DiscoverArgVectors
    /\ sh = NoScript
    /\ MainStarts

NextDiscover == Discover

SpecDiscover == InitDiscover /\ [][NextDiscover]_vars

(***************************************************************************)
(* The processing of one image over a wider range of durations, a timer    *)
(* that reads 0 ms included, and of transcripts, 100 characters in all     *)
(* included.  The specification ends where the statistics block begins.    *)
(***************************************************************************)
MetricTimings == {0, 2, 500}

\* ten outputs with one transcript of ten characters each
ResultLong == [o \in 1..10 |-> << [k \in 1..10 |-> "a"] >>]

MetricResults == {ResultA, ResultLong}

InitMetrics ==
    /\ fs = RunFs
    /\ sh = NoScript
    /\ argv = <<PathX>>
    /\ MainStarts

NextMetrics ==
    \/ Discover
    \/ InitEngine
    \/ \E t \in MetricTimings, result \in MetricResults : Predict(t, result)
    \/ Save
    \/ \E o \in ScorerOutcomes : RunScorer(o)
    \/ RecordExecFailed
    \/ RecordScored
    \/ RecordStodRaises
    \/ RecordNoMarker

SpecMetrics == InitMetrics /\ [][NextMetrics]_vars

(***************************************************************************)
(* The statistics block alone, over batches of up to MaxSamples images of  *)
(* x.bmp.  A batch is entered where the per-image loop has just ended:     *)
(* the first images have a latency sample each (the first successful_count *)
(* of them were scored 1.0, for the others the scorer command failed), and *)
(* Predict raised at once for the remaining images.                        *)
(***************************************************************************)
StatTimes == {Rat(100, 1), Rat(200, 1), Rat(300, 1)}

InitStats ==
    \E n \in 1..MaxSamples :
      \E m \in 0..n :
        \E L \in [1..m -> StatTimes], succ \in 0..m :
          /\ fs = RunFs
          /\ sh = NoScript
          /\ err = << >>
          /\ summary = NoSummary
          /\ argv = [p \in 1..n |-> PathX]
          /\ pc = "stats"
          /\ imagePaths = [p \in 1..n |-> PathX]
          /\ engine = 1
          /\ i = n
          /\ run = 0
          /\ run_times = << >>
          /\ final_outputs = << >>
          /\ total_chars = 0
          /\ lastPredict = NoPredict
          /\ avg_inference_ms = Rat(0, 1)
          /\ avg_fps = Rat(0, 1)
          /\ chars_per_second = Rat(0, 1)
          /\ j = 0
          /\ inference_times = L
          /\ successful_count = succ
          /\ failed_count = n - m
          /\ disk = IF m = 0 THEN << >>
                    ELSE [f \in {Filename(PathX)} |-> ResultA[1]]
          /\ predictCalls = [p \in 1..n |-> IF p <= m THEN Repetitions ELSE 1]
          /\ scorerCalls = [p \in 1..n |-> IF p <= m THEN 1 ELSE 0]
          /\ result_str = << >>
          /\ cmd_ok = FALSE
          /\ scorerRun = NoScorer
          /\ fault = [p \in 1..n |-> IF p <= succ THEN "none"
                                     ELSE IF p <= m THEN "scorer_exec"
                                     ELSE "predict"]
          /\ out = [p \in 1..m |->
                      PerImageLine(p, PathX, L[p], CountOutputs(ResultA, 1),
                                   IF p <= succ THEN 10000 ELSE 0)]
          /\ exit_code = -1

NextStats == Stats

SpecStats == InitStats /\ [][NextStats]_vars

(***************************************************************************)
(* scripts/startup.sh.  sh holds the position of the script, its first     *)
(* argument, the variables FORCE_REBUILD and NEED_BUILD, whether the build *)
(* directory exists, the state of build/Benchmark, the commands run so     *)
(* far, and the exit status (-1 while running).                            *)
(***************************************************************************)
ShCommands == {"unset", "benchmark", "build", "setup-dataset", "rebuild",
               "clean", "help"}

\* the build directory and build/Benchmark when the script starts
ShDisks ==
    {[build_dir |-> FALSE, exe |-> "none"],
     [build_dir |-> TRUE, exe |-> "none"],
     [build_dir |-> TRUE, exe |-> "older_than_source"],
     [build_dir |-> TRUE, exe |-> "older_than_cmakelists"],
     [build_dir |-> TRUE, exe |-> "up_to_date"]}

ScriptStarts ==
    {[pc |-> "setup", arg |-> a, COMMAND |-> "unset", FORCE_REBUILD |-> f,
      NEED_BUILD |-> FALSE, build_dir |-> d.build_dir, exe |-> d.exe,
      exe_at_start |-> d.exe, ran |-> << >>, benchmark_status |-> -1,
      images_failed |-> 0, status |-> -1] :
        a \in ShCommands, f \in {"unset", "true", "false"}, d \in ShDisks}

\* the variables of the Benchmark process, which the script does not touch
program == <<fs, err, summary, argv, pc, imagePaths, engine, i, locals,
             inference_times, successful_count, failed_count, disk,
             predictCalls, scorerCalls, fault, out, exit_code>>

ShExit(code) == [sh EXCEPT !.pc = "done", !.status = code]

\* configuration and mkdir -p of the log, build and output directories
ShSetup ==
    /\ sh.pc = "setup"
    /\ sh' = [sh EXCEPT !.pc = "conda", !.build_dir = TRUE]
    /\ UNCHANGED program

\* conda activate deepx and the check of CONDA_DEFAULT_ENV
ShActivate(ok) ==
    /\ sh.pc = "conda"
    /\ sh' = IF ok THEN [sh EXCEPT !.pc = "check"] ELSE ShExit(1)
    /\ UNCHANGED program

\* NEED_BUILD from FORCE_REBUILD, the build directory and the executable
ShCheckBuild ==
    /\ sh.pc = "check"
    /\ LET force == IF sh.FORCE_REBUILD = "unset" THEN "false" ELSE sh.FORCE_REBUILD
           need == \/ force = "true"
                   \/ ~sh.build_dir
                   \/ sh.exe = "none"
                   \/ sh.exe = "older_than_source"
                   \/ sh.exe = "older_than_cmakelists"
       IN  sh' = [sh EXCEPT !.FORCE_REBUILD = force, !.NEED_BUILD = need,
                            !.pc = IF need THEN "prepare" ELSE "verify"]
    /\ UNCHANGED program

\* rm -rf of the build directory on a forced rebuild, then mkdir -p
ShPrepareBuild ==
    /\ sh.pc = "prepare"
    /\ sh' = IF sh.FORCE_REBUILD = "true" /\ sh.build_dir
             THEN [sh EXCEPT !.ran = Append(@, "rm_build"), !.exe = "none",
                             !.build_dir = TRUE, !.pc = "cmake"]
             ELSE [sh EXCEPT !.build_dir = TRUE, !.pc = "cmake"]
    /\ UNCHANGED program

\* cmake .. and the check of CMAKE_EXIT_CODE
ShCmake(ok) ==
    /\ sh.pc = "cmake"
    /\ sh' = IF ok THEN [sh EXCEPT !.ran = Append(@, "cmake"), !.pc = "make"]
             ELSE [ShExit(1) EXCEPT !.ran = Append(@, "cmake")]
    /\ UNCHANGED program

\* make and the check of MAKE_EXIT_CODE
ShMake(ok) ==
    /\ sh.pc = "make"
    /\ sh' = IF ok THEN [sh EXCEPT !.ran = Append(@, "make"),
                                   !.exe = "up_to_date", !.pc = "verify"]
             ELSE [ShExit(1) EXCEPT !.ran = Append(@, "make")]
    /\ UNCHANGED program

\* the check that build/Benchmark exists
ShVerifyExecutable ==
    /\ sh.pc = "verify"
    /\ sh' = IF sh.exe # "none" THEN [sh EXCEPT !.pc = "dispatch"] ELSE ShExit(1)
    /\ UNCHANGED program

\* COMMAND="${1:-benchmark}" and the case statement
ShDispatch ==
    /\ sh.pc = "dispatch"
    /\ LET COMMAND == IF sh.arg = "unset" THEN "benchmark" ELSE sh.arg
           at == [sh EXCEPT !.COMMAND = COMMAND]
       IN  sh' = CASE COMMAND = "build" -> [at EXCEPT !.pc = "done", !.status = 0]
                   [] COMMAND = "benchmark" -> [at EXCEPT !.pc = "bench"]
                   [] COMMAND = "setup-dataset" -> [at EXCEPT !.pc = "dataset"]
                   [] COMMAND = "rebuild" ->
                        [at EXCEPT !.FORCE_REBUILD = "true", !.pc = "bench"]
                   [] COMMAND = "clean" ->
                        [at EXCEPT !.ran = Append(@, "rm_build"), !.build_dir = FALSE,
                                   !.exe = "none", !.pc = "done", !.status = 0]
                   [] OTHER -> [at EXCEPT !.pc = "done", !.status = 1]
    /\ UNCHANGED program

\* verify_custom_dataset called by the case statement, under set -e
ShVerifyDataset(ok) ==
    /\ sh.pc = "dataset"
    /\ sh' = ShExit(IF ok THEN 0 ELSE 1)
    /\ UNCHANGED program

\* the numbers of images that may fail in the run of build/Benchmark
ImagesFailed == {0, 1, 2}

\* run_batch_benchmark: the dataset check, then build/Benchmark on images/
\* with `failed` images failing; when wait reports status 0 the metrics are
\* extracted and the Markdown table is generated, else the function
\* returns 1 and set -e ends the script
ShRunBatchBenchmark(dataset_ok, failed) ==
    /\ sh.pc = "bench"
    /\ sh' = IF ~dataset_ok THEN ShExit(1)
             ELSE IF ExitCode(failed) = 0
             THEN [ShExit(0) EXCEPT
                      !.ran = @ \o <<"benchmark", "extract_metrics", "markdown">>,
                      !.benchmark_status = ExitCode(failed),
                      !.images_failed = failed]
             ELSE [ShExit(1) EXCEPT
                      !.ran = Append(@, "benchmark"),
                      !.benchmark_status = ExitCode(failed),
                      !.images_failed = failed]
    /\ UNCHANGED program

InitStartup ==
    /\ sh \in ScriptStarts
    /\ fs = RunFs
    /\ argv = << >>
    /\ MainStarts

NextStartup ==
    \/ ShSetup
    \/ \E ok \in BOOLEAN : ShActivate(ok)
    \/ ShCheckBuild
    \/ ShPrepareBuild
    \/ \E ok \in BOOLEAN : ShCmake(ok)
    \/ \E ok \in BOOLEAN : ShMake(ok)
    \/ ShVerifyExecutable
    \/ ShDispatch
    \/ \E ok \in BOOLEAN : ShVerifyDataset(ok)
    \/ \E dataset_ok \in BOOLEAN, failed \in ImagesFailed :
          ShRunBatchBenchmark(dataset_ok, failed)

SpecStartup == InitStartup /\ [][NextStartup]_vars

(***************************************************************************)
(* The character count of one image over every small result: transcripts   *)
(* of up to MaxTextLen characters, a letter, the backslash, the quote, the *)
(* closing bracket and the comma among them, up to MaxTexts transcripts in *)
(* the first output, and an optional second output.  The engine returns    *)
(* the same result in the three repetitions.                               *)
(***************************************************************************)
MaxTextLen == 2
MaxTexts == 2

TextChars == {"a", "\\", "\"", "]", ","}

Transcripts == UNION {[1..n -> TextChars] : n \in 0..MaxTextLen}

\* the outputs: the transcripts of their text regions
TextOutputs == UNION {[1..n -> Transcripts] : n \in 0..MaxTexts}

SecondOutput == << <<"a">> >>

CountResults == {<<o>> : o \in TextOutputs} \cup {<<o, SecondOutput>> : o \in TextOutputs}

InitCount ==
    /\ fs = RunFs
    /\ sh = NoScript
    /\ argv = <<PathX>>
    /\ MainStarts

\* a repetition of a deterministic engine: the result of the first call
PredictSame(result) ==
    /\ run = 0 \/ result = lastPredict.first
    /\ Predict(1, result)

NextCount ==
    \/ Discover
    \/ InitEngine
    \/ \E result \in CountResults : PredictSame(result)
    \/ Save

SpecCount == InitCount /\ [][NextCount]_vars

(***************************************************************************)
(* Whole runs over argument vectors that may name the same image more than *)
(* once (d and d/s/a.PNG, x.bmp twice), with one duration and one result   *)
(* of Predict.                                                             *)
(***************************************************************************)
InitDuplicates ==
    /\ fs = RunFs
    /\ sh = NoScript
    /\ argv \in DiscoverArgVectors
    /\ MainStarts

NextDuplicates ==
    \/ Discover
    \/ InitEngine
    \/ Predict(1, ResultA)
    \/ PredictRaises
    \/ Save
    \/ SaveRaises
    \/ \E o \in ScorerOutcomes : RunScorer(o)
    \/ RecordExecFailed
    \/ RecordScored
    \/ RecordStodRaises
    \/ RecordNoMarker
    \/ Stats

SpecDuplicates == InitDuplicates /\ [][NextDuplicates]_vars

(***************************************************************************)
(* Whole runs under the assumption that every call returns or raises: the  *)
(* program is sequential, so whenever a step is possible one is eventually *)
(* taken.  One duration and one result of Predict; the trees of RunFs are  *)
(* finite and hold no symbolic link.                                       *)
(***************************************************************************)
NextTermination ==
    \/ Usage
    \/ Discover
    \/ InitEngine
    \/ InitEngineFails
    \/ Predict(1, ResultA)
    \/ PredictRaises
    \/ Save
    \/ SaveRaises
    \/ \E o \in ScorerOutcomes : RunScorer(o)
    \/ RecordExecFailed
    \/ RecordScored
    \/ RecordStodRaises
    \/ RecordNoMarker
    \/ Stats

\* the steps up to the scorer call; the steps that raise come first
CallSteps ==
    \/ Usage
    \/ Discover
    \/ InitEngine
    \/ InitEngineFails
    \/ PredictRaises
    \/ Predict(1, ResultA)
    \/ SaveRaises
    \/ Save
    \/ \E o \in ScorerOutcomes : RunScorer(o)

\* the steps after the scorer call and the statistics block: one of them is
\* possible exactly when pc is "parse" or "stats"
RecordSteps ==
    \/ RecordExecFailed
    \/ RecordScored
    \/ RecordStodRaises
    \/ RecordNoMarker
    \/ Stats

\* WF_vars(RecordSteps) with its enabling condition written out
RecordStepsTaken ==
    []<>(pc \notin {"parse", "stats"}) \/ []<><<RecordSteps>>_vars

SpecTermination ==
    Init /\ [][NextTermination]_vars /\ WF_vars(CallSteps) /\ RecordStepsTaken

(***************************************************************************)
(* Vocabulary of the properties.                                           *)
(***************************************************************************)
NumImages == Len(imagePaths)

IsResultLine(l) == l.kind = "PER_IMAGE_RESULT"

ResultLines == SelectSeq(out, IsResultLine)

TimingInfoLines == {k \in 1..Len(out) : out[k].kind = "TIMING_INFO"}

\* the positions of imagePaths that have a PER_IMAGE_RESULT line
LinePositions == [k \in 1..Len(ResultLines) |-> ResultLines[k].pos]

\* the per-image loop has been left (or the statistics block has run)
LoopLeft == pc \in {"stats", "done"} /\ engine = 1

\* the positions lo..hi that are not in F, in increasing order
RECURSIVE AscendingOutside(_, _, _)
AscendingOutside(F, lo, hi) ==
    IF lo > hi THEN << >>
    ELSE (IF lo \in F THEN << >> ELSE <<lo>>) \o AscendingOutside(F, lo + 1, hi)

\* the number of characters of the transcripts of a Predict result
RECURSIVE SumLen(_, _)
SumLen(texts, k) == IF k > Len(texts) THEN 0 ELSE Len(texts[k]) + SumLen(texts, k + 1)

RECURSIVE TranscriptChars(_, _)
TranscriptChars(result, k) ==
    IF k > Len(result) THEN 0
    ELSE SumLen(result[k], 1) + TranscriptChars(result, k + 1)

SumOf3(times) == times[1] + times[2] + times[3]

Abs(x) == IF x < 0 THEN -x ELSE x

\* line l carries the performance fields of three runs with timings `times`
\* whose first run returned `first`: each printed value is within half a
\* unit of the last printed place of the exact value
PerfFieldsCorrect(l, times, first) ==
    /\ Len(times) = 3
    /\ 2 * Abs(3 * l.inference_ms - 100 * SumOf3(times)) <= 3
    /\ 2 * Abs(l.fps * SumOf3(times) - 300000) <= SumOf3(times)
    /\ 2 * Abs(l.chars_per_second * SumOf3(times)
               - 300000 * TranscriptChars(first, 1)) <= SumOf3(times)
    /\ l.total_chars = TranscriptChars(first, 1)

\* this step appends exactly one PER_IMAGE_RESULT line for the current
\* image, with accuracy 0.0 and the performance fields of its runs
AppendsZeroAccuracyLine ==
    /\ Len(out') = Len(out) + 1
    /\ SubSeq(out', 1, Len(out)) = out
    /\ LET l == out'[Len(out')]
       IN  /\ l.kind = "PER_IMAGE_RESULT"
           /\ l.pos = i + 1
           /\ l.filename = Filename(imagePaths[i + 1])
           /\ l.accuracy = 0
           /\ PerfFieldsCorrect(l, run_times, lastPredict.first)

\* this step moves on to the next image of the list, if there is one
MovesToNextImage ==
    /\ i' = i + 1
    /\ pc' = IF i + 1 < NumImages THEN "run" ELSE "stats"
    /\ run' = 0

(***************************************************************************)
(* C1  Failure isolation: when the only thing that goes wrong in a batch   *)
(* is Predict raising for the images of a set F, every image outside F is  *)
(* still attempted, successful_count = n - |F|, failed_count = |F|, and the *)
(* PER_IMAGE_RESULT lines are those of the images outside F, in discovery  *)
(* order.                                                                  *)
(***************************************************************************)
PredictFailed == {p \in 1..NumImages : fault[p] = "predict"}

C1_FailureIsolation ==
    (LoopLeft /\ \A p \in 1..NumImages : fault[p] \in {"none", "predict"})
    => /\ \A p \in 1..NumImages : predictCalls[p] >= 1
       /\ successful_count = NumImages - Cardinality(PredictFailed)
       /\ failed_count = Cardinality(PredictFailed)
       /\ LinePositions = AscendingOutside(PredictFailed, 1, NumImages)

C1_Witness ==
    /\ pc = "done"
    /\ NumImages = 2
    /\ fault = <<"predict", "none">>
    /\ LinePositions = <<2>>
    /\ successful_count = 1
    /\ failed_count = 1

(***************************************************************************)
(* C2  Scorer execution failure degrades: when the scorer command of an    *)
(* image could not be started or exited with a nonzero status, the next    *)
(* step writes a PER_IMAGE_RESULT line for that image with accuracy 0.0    *)
(* and the inference_ms, fps, chars_per_second and total_chars of its      *)
(* three runs, and the loop moves to the next image.                       *)
(***************************************************************************)
ScorerCommandFailed ==
    /\ pc = "parse"
    /\ scorerRun.ran
    /\ ~scorerRun.started \/ scorerRun.status # 0

C2_ScorerFailureDegrades ==
    [][ScorerCommandFailed => AppendsZeroAccuracyLine /\ MovesToNextImage]_vars

C2_Witness ==
    /\ NumImages = 2
    /\ fault[1] = "scorer_exec"
    /\ Len(ResultLines) = 1
    /\ ResultLines[1].pos = 1
    /\ ResultLines[1].accuracy = 0
    /\ ResultLines[1].inference_ms = 133
    /\ predictCalls[2] >= 1

(***************************************************************************)
(* C3  Missing marker degrades to accuracy 0.0: when the scorer command    *)
(* of an image exited with status 0 and its output does not contain the    *)
(* 'SINGLE_ACC: ' marker, the next step writes a PER_IMAGE_RESULT line for *)
(* that image with accuracy 0.0 and the correct performance fields.        *)
(***************************************************************************)
ScorerPrintedNoMarker ==
    /\ pc = "parse"
    /\ scorerRun.ran
    /\ scorerRun.started
    /\ scorerRun.status = 0
    /\ \A k \in 1..Len(result_str) : result_str[k] # "SINGLE_ACC: "

C3_MissingMarkerLine ==
    [][ScorerPrintedNoMarker => AppendsZeroAccuracyLine]_vars

(***************************************************************************)
(* C4  One structured line per processed image.  As claimed: in a run that *)
(* finishes the per-image loop, the number of PER_IMAGE_RESULT lines       *)
(* equals the number of images attempted.                                  *)
(***************************************************************************)
Attempted == {p \in 1..NumImages : predictCalls[p] >= 1}

C4_OneLinePerAttempted ==
    LoopLeft => Len(ResultLines) = Cardinality(Attempted)

(***************************************************************************)
(* C4, amended: in a run that finishes the per-image loop, the number of   *)
(* PER_IMAGE_RESULT lines equals the number of attempted images whose      *)
(* processing raised no exception and whose scorer did not exit with       *)
(* status 0 without printing the marker; the other attempted images have   *)
(* no line.                                                                *)
(***************************************************************************)
WithLine == {p \in Attempted : fault[p] \in {"none", "no_value", "scorer_exec"}}

C4_LinesOfRecordedImages ==
    LoopLeft => /\ Len(ResultLines) = Cardinality(WithLine)
                /\ {LinePositions[k] : k \in 1..Len(ResultLines)} = WithLine

C4_Witness ==
    /\ pc = "done"
    /\ NumImages = 2
    /\ fault = <<"save", "scorer_exec">>
    /\ Len(ResultLines) = 1

(***************************************************************************)
(* C5  Exit code: the process exits with 0 exactly when an argument was    *)
(* given, an image was discovered and failed_count is 0 when the batch     *)
(* ends; it exits with 1 when no argument was given, when no image was     *)
(* discovered, or when failed_count is positive when the batch ends.       *)
(***************************************************************************)
BatchEnded == NumImages >= 1 /\ i = NumImages

C5_ExitCode ==
    pc = "done"
    => /\ exit_code = 0 <=> (Len(argv) >= 1 /\ BatchEnded /\ failed_count = 0)
       /\ Len(argv) = 0 => exit_code = 1
       /\ NumImages = 0 => exit_code = 1
       /\ (BatchEnded /\ failed_count > 0) => exit_code = 1

C5_Witness ==
    /\ pc = "done"
    /\ exit_code = 1
    /\ failed_count = 1
    /\ successful_count = 1

(***************************************************************************)
(* C6  Fatal conditions: a run whose discovery yields no image, or whose   *)
(* engine construction fails, ends with a nonzero exit status having made  *)
(* no Predict call and no scorer call and written no PER_IMAGE_RESULT and  *)
(* no TIMING_INFO line.                                                    *)
(***************************************************************************)
C6_FatalStopsBeforeProcessing ==
    (pc = "done" /\ Len(argv) >= 1 /\ (NumImages = 0 \/ engine = 0))
    => /\ exit_code > 0
       /\ \A p \in 1..NumImages : predictCalls[p] = 0 /\ scorerCalls[p] = 0
       /\ out = << >>

C6_Witness ==
    /\ pc = "done"
    /\ NumImages = 2
    /\ engine = 0
    /\ exit_code = 134

(***************************************************************************)
(* C7  Repetition consistency: a latency sample enters inference_times     *)
(* only in a step after which exactly 3 Predict calls have been made on    *)
(* the current image and exactly 3 run timings are held, and the sample is *)
(* the arithmetic mean of those 3 timings; no image ever gets a fourth     *)
(* Predict call.                                                           *)
(***************************************************************************)
SampleIsMeanOfThree ==
    /\ Len(inference_times') = Len(inference_times) + 1
    /\ SubSeq(inference_times', 1, Len(inference_times)) = inference_times
    /\ predictCalls'[i + 1] = 3
    /\ Len(run_times') = 3
    /\ LET sample == inference_times'[Len(inference_times')]
       IN  3 * sample.n = sample.d * SumOf3(run_times')

C7_RepetitionConsistency ==
    /\ [](\A p \in DOMAIN predictCalls : predictCalls[p] <= 3)
    /\ [][inference_times' # inference_times => SampleIsMeanOfThree]_vars

C7_Witness ==
    /\ pc = "save"
    /\ run_times = <<1, 2, 2>>
    /\ predictCalls[i + 1] = 3
    /\ inference_times = <<[n |-> 5, d |-> 3]>>

(***************************************************************************)
(* C8  Canonical run: once Predict has returned for the current image, the *)
(* retained outputs are those of the first call and total_chars is the     *)
(* character count of the first call's transcripts; what is saved under    *)
(* the image's name is an output of the first call, and the total_chars of *)
(* the image's PER_IMAGE_RESULT line is that of the first call.            *)
(***************************************************************************)
FirstRunIsCanonical ==
    (i < NumImages /\ lastPredict.pos = i + 1)
    => /\ final_outputs = lastPredict.first
       /\ total_chars = TranscriptChars(lastPredict.first, 1)
       /\ j >= 1 => /\ Filename(imagePaths[i + 1]) \in DOMAIN disk
                    /\ disk[Filename(imagePaths[i + 1])] = lastPredict.first[j]

LineCountsFirstRun ==
    (pc = "parse" /\ Len(out') = Len(out) + 1)
    => out'[Len(out')].total_chars = TranscriptChars(lastPredict.first, 1)

C8_CanonicalRun == []FirstRunIsCanonical /\ [][LineCountsFirstRun]_vars

C8_Witness ==
    /\ pc = "score"
    /\ j = 1
    /\ lastPredict.run = 2
    /\ lastPredict.first = ResultA
    /\ lastPredict.result = ResultB
    /\ disk[Filename(imagePaths[i + 1])] = ResultA[1]
    /\ total_chars = 2

(***************************************************************************)
(* C9  No partial credit and no retry: the step in which Predict raises    *)
(* for an image adds exactly 1 to failed_count, leaves successful_count,   *)
(* the output lines, the latency samples and the saved files unchanged and *)
(* leaves the image; afterwards no Predict call is made on that image, the *)
(* scorer is never invoked for it, it has no PER_IMAGE_RESULT line, and    *)
(* the latency samples are those of the images whose 3 calls returned.     *)
(***************************************************************************)
RaisedImages == {p \in DOMAIN fault : fault[p] = "predict"}

NothingKeptOfRaised ==
    /\ \A p \in RaisedImages :
          /\ predictCalls[p] \in 1..3
          /\ scorerCalls[p] = 0
          /\ \A k \in 1..Len(ResultLines) : ResultLines[k].pos # p
          /\ p <= i
    /\ Len(inference_times) =
          Cardinality({p \in DOMAIN fault : predictCalls[p] = 3 /\ p \notin RaisedImages})

PredictRaisesNow ==
    /\ pc = "run"
    /\ i + 1 \in DOMAIN fault
    /\ fault[i + 1] = "none"
    /\ fault'[i + 1] = "predict"

RaiseStep ==
    PredictRaisesNow
    => /\ failed_count' = failed_count + 1
       /\ successful_count' = successful_count
       /\ out' = out
       /\ inference_times' = inference_times
       /\ disk' = disk
       /\ i' = i + 1

NoFurtherCall == \A p \in RaisedImages : predictCalls'[p] = predictCalls[p]

C9_NoPartialCreditNoRetry ==
    []NothingKeptOfRaised /\ [][RaiseStep /\ NoFurtherCall]_vars

C9_Witness ==
    /\ pc = "done"
    /\ NumImages = 2
    /\ fault = <<"none", "predict">>
    /\ predictCalls = <<3, 2>>
    /\ Len(inference_times) = 1
    /\ failed_count = 1

(***************************************************************************)
(* C10  Emission order: the images of the PER_IMAGE_RESULT lines, in the   *)
(* order the lines were written, are at strictly increasing positions of   *)
(* the discovered list, and each line names the image at its position.     *)
(***************************************************************************)
C10_EmissionOrder ==
    /\ \A k \in 1..Len(ResultLines) :
          /\ ResultLines[k].pos \in 1..NumImages
          /\ ResultLines[k].filename = Filename(imagePaths[ResultLines[k].pos])
    /\ \A k \in 1..(Len(ResultLines) - 1) : ResultLines[k].pos < ResultLines[k + 1].pos

C10_Witness ==
    /\ pc = "done"
    /\ LinePositions = <<1, 2>>

(***************************************************************************)
(* C11  Incremental emission: the PER_IMAGE_RESULT line of an image is     *)
(* written during the iteration of that image, before the first Predict    *)
(* call on the next image; at every moment each image whose iteration has  *)
(* ended with a record already has its line in the output.                 *)
(***************************************************************************)
HasLine(p) == \E k \in 1..Len(out) : IsResultLine(out[k]) /\ out[k].pos = p

\* the images whose iteration has ended on a path that writes a record
FinishedWithRecord ==
    {p \in 1..NumImages : p <= i /\ fault[p] \in {"none", "no_value", "scorer_exec"}}

LinesOfFinishedPresent ==
    /\ \A p \in FinishedWithRecord : HasLine(p)
    /\ \A p \in 1..NumImages :
          predictCalls[p] >= 1 => \A q \in FinishedWithRecord : q < p => HasLine(q)

\* a step that writes a PER_IMAGE_RESULT line writes the line of the
\* current image, and no later image has been passed to Predict yet
LineWrittenInOwnIteration ==
    (Len(out') > Len(out) /\ IsResultLine(out'[Len(out')]))
    => /\ out'[Len(out')].pos = i + 1
       /\ \A q \in 1..NumImages : q > i + 1 => predictCalls[q] = 0

C11_IncrementalEmission ==
    []LinesOfFinishedPresent /\ [][LineWrittenInOwnIteration]_vars

C11_Witness ==
    /\ pc = "run"
    /\ i = 1
    /\ run = 1
    /\ predictCalls = <<3, 1>>
    /\ HasLine(1)

(***************************************************************************)
(* C12  Summary comes last: no TIMING_INFO line is written before every    *)
(* discovered image, successful or failed, has been attempted, and once a  *)
(* TIMING_INFO line is written there is no further Predict call, scorer    *)
(* call or PER_IMAGE_RESULT line.                                          *)
(***************************************************************************)
SummaryStarted == TimingInfoLines # {}

SummaryAfterAllAttempts ==
    SummaryStarted
    => /\ \A p \in 1..NumImages : predictCalls[p] >= 1
       /\ i = NumImages
       /\ \A k \in 1..Len(out), t \in TimingInfoLines : IsResultLine(out[k]) => k < t

NothingAfterSummary ==
    SummaryStarted
    => /\ predictCalls' = predictCalls
       /\ scorerCalls' = scorerCalls
       /\ SelectSeq(out', IsResultLine) = ResultLines

C12_SummaryLast ==
    []SummaryAfterAllAttempts /\ [][NothingAfterSummary]_vars

C12_Witness ==
    /\ pc = "done"
    /\ SummaryStarted
    /\ fault = <<"predict", "none">>
    /\ predictCalls = <<1, 3>>
    /\ Len(out) = 7
    /\ out[1].kind = "PER_IMAGE_RESULT"

(***************************************************************************)
(* C13  Summary is always produced: every run that discovers at least one  *)
(* image, initializes the engine and finishes the per-image loop writes    *)
(* the six TIMING_INFO lines (INIT, TOTAL_INFERENCE, AVG_INFERENCE,        *)
(* AVG_FPS, BATCH_FPS, SUCCESS_RATE) exactly once, also when every image   *)
(* failed.                                                                 *)
(***************************************************************************)
RunFinished == pc = "done" /\ engine = 1 /\ NumImages >= 1 /\ i = NumImages

SummaryKeys == <<"INIT", "TOTAL_INFERENCE", "AVG_INFERENCE", "AVG_FPS",
                 "BATCH_FPS", "SUCCESS_RATE">>

IsTimingLine(l) == l.kind = "TIMING_INFO"

\* the keys of the TIMING_INFO lines written so far, in output order
WrittenKeys ==
    LET lines == SelectSeq(out, IsTimingLine)
    IN  [k \in 1..Len(lines) |-> lines[k].key]

C13_SummaryAlways == RunFinished => WrittenKeys = SummaryKeys

(***************************************************************************)
(* C13, amended: a run that discovers at least one image, initializes the  *)
(* engine and finishes the per-image loop writes the six TIMING_INFO lines *)
(* exactly once, in that order, when the three Predict calls of at least   *)
(* one image returned; when they returned for no image (Predict raised for *)
(* every image) it writes no TIMING_INFO line.                             *)
(***************************************************************************)
Sampled == {p \in 1..NumImages : predictCalls[p] = Repetitions /\ fault[p] # "predict"}

C13_SummaryWhenSampled ==
    RunFinished => WrittenKeys = (IF Sampled # {} THEN SummaryKeys ELSE << >>)

C13_Witness ==
    /\ RunFinished
    /\ fault = <<"save", "predict">>
    /\ failed_count = 2
    /\ successful_count = 0
    /\ WrittenKeys = SummaryKeys

(***************************************************************************)
(* C14  Run phase order: the phases of a run occur in the order engine     *)
(* initialization, image discovery, per-image processing, finalize,        *)
(* report, with no backward transition; in particular the engine is        *)
(* initialized before image discovery runs.                                *)
(***************************************************************************)
\* the position of main() as a rank: discovery pending, engine pending,
\* the steps of one image, the statistics block, returned
PhaseRank(p) ==
    CASE p = "start" -> 1 [] p = "init" -> 2 [] p = "run" -> 3
      [] p = "save" -> 4 [] p = "score" -> 5 [] p = "parse" -> 6
      [] p = "stats" -> 7 [] p = "done" -> 8

\* no step goes back, except from the end of one image to the first
\* repetition of the next
NoBackwardStep ==
    /\ i' \in {i, i + 1}
    /\ i' = i => PhaseRank(pc') >= PhaseRank(pc)
    /\ i' = i + 1 => pc \in {"run", "save", "parse"} /\ pc' \in {"run", "stats"}

\* this step runs collectImagePaths
DiscoveryStep == pc = "start" /\ pc' # "start" /\ Len(argv) >= 1

\* this step constructs the engine
EngineStep == engine' # engine

C14_EngineBeforeDiscovery ==
    [][NoBackwardStep /\ (DiscoveryStep => engine >= 1)]_vars

(***************************************************************************)
(* C14, amended: the phases of a run occur in the order image discovery,   *)
(* engine initialization, per-image processing, finalize, report, with no  *)
(* backward transition; in particular image discovery runs before the      *)
(* engine is initialized, and the engine is initialized only when          *)
(* discovery has found an image.                                           *)
(***************************************************************************)
DiscoveryBeforeEngine ==
    /\ DiscoveryStep => engine = 0
    /\ EngineStep => /\ pc = "init"
                     /\ engine = 0 /\ engine' = 1
                     /\ imagePaths = collectImagePaths(argv)
                     /\ imagePaths # << >>
                     /\ i = 0

EngineBeforeImages ==
    /\ pc \in {"run", "save", "score", "parse", "stats"} => engine = 1
    /\ pc \in {"start", "init"} => engine = 0 /\ i = 0 /\ out = << >>

C14_DiscoveryThenEngine ==
    []EngineBeforeImages /\ [][NoBackwardStep /\ DiscoveryBeforeEngine]_vars

C14_Witness ==
    /\ pc = "done"
    /\ engine = 1
    /\ i = 2
    /\ predictCalls = <<3, 3>>
    /\ SummaryStarted

(***************************************************************************)
(* C15  Discovery completeness: for a directory argument whose tree holds  *)
(* k regular files with a whitelisted extension (.jpg, .jpeg, .png, .bmp,  *)
(* .tiff, in any letter case) at any depth and m other files,              *)
(* collectImagePaths returns exactly those k paths, each once, and none of *)
(* the others.                                                             *)
(***************************************************************************)
\* the file names of the trees that end in a whitelisted extension
WhitelistedNames ==
    { <<"a", ".", "j", "p", "g">>, <<"b", ".", "J", "P", "E", "G">>,
      <<"c", ".", "P", "n", "G">>, <<"e", ".", "b", "m", "p">>,
      <<"f", ".", "T", "i", "f", "f">>, <<"p", ".", "p", "n", "g">>,
      <<"a", ".", "P", "N", "G">>, <<"x", ".", "b", "m", "p">> }

\* the directories of the tree rooted at `root`
TreeDirs(root) ==
    {d \in DOMAIN fs :
        \/ d = root
        \/ Len(d) > Len(root) /\ SubSeq(d, 1, Len(root) + 1) = root \o <<"/">>}

\* the non-directory entries of the tree rooted at `root`, with their paths
TreeFiles(root) ==
    UNION {{[path |-> Join(d, fs[d][k].name), name |-> fs[d][k].name,
             kind |-> fs[d][k].kind] : k \in {m \in 1..Len(fs[d]) : fs[d][m].kind # "dir"}}
           : d \in TreeDirs(root)}

ExpectedImages(root) ==
    {f.path : f \in {g \in TreeFiles(root) :
                        g.kind = "file" /\ g.name \in WhitelistedNames}}

Discovered == pc # "start" /\ Len(argv) >= 1

C15_DiscoveryComplete ==
    (Discovered /\ Len(argv) = 1 /\ isDirectory(argv[1]))
    => /\ {imagePaths[k] : k \in 1..Len(imagePaths)} = ExpectedImages(argv[1])
       /\ Len(imagePaths) = Cardinality(ExpectedImages(argv[1]))

C15_Witness ==
    /\ Discovered
    /\ argv = <<PathT>>
    /\ Len(imagePaths) = 2
    /\ Cardinality(TreeFiles(PathT)) = 3
    /\ \E k \in 1..2 : imagePaths[k] = PathT \o <<"/", "c", ".", "P", "n", "G">>
    /\ \E k \in 1..2 : imagePaths[k] = PathTUV \o <<"/", "b", ".", "J", "P", "E", "G">>
    /\ \E f \in TreeFiles(PathT) : f.name = <<"p", ".", "p", "n", "g">>

(***************************************************************************)
(* C16  Invalid arguments are skipped, not fatal: an argument that is      *)
(* neither a directory nor a regular file with a whitelisted extension     *)
(* produces a warning and contributes no path, it does not change which    *)
(* paths the other arguments contribute, and the run proceeds if another   *)
(* argument yields an image.                                               *)
(***************************************************************************)
\* in the file system of a benchmark run: the arguments that are neither a
\* directory nor a regular image file, and the images the others yield
InvalidArgsOfRun == {PathQ, PathDN}

ContributionInRun(path) ==
    CASE path = PathD -> <<PathDSA>>
      [] path = PathDSA -> <<PathDSA>>
      [] path = PathX -> <<PathX>>
      [] OTHER -> << >>

RECURSIVE Contributions(_, _)
Contributions(args, k) ==
    IF k > Len(args) THEN << >>
    ELSE (IF args[k] \in InvalidArgsOfRun THEN << >> ELSE ContributionInRun(args[k]))
         \o Contributions(args, k + 1)

IsInvalidArg(path) == path \in InvalidArgsOfRun

C16_InvalidArgsSkipped ==
    (Discovered /\ fs = RunFs)
    => /\ err = SelectSeq(argv, IsInvalidArg)
       /\ imagePaths = Contributions(argv, 1)
       /\ (\E k \in 1..Len(argv) : ~IsInvalidArg(argv[k])) => pc = "init" /\ exit_code = -1
       /\ (\A k \in 1..Len(argv) : IsInvalidArg(argv[k])) => pc = "done" /\ exit_code = 1

C16_Witness ==
    /\ Discovered
    /\ argv = <<PathQ, PathX>>
    /\ err = <<PathQ>>
    /\ imagePaths = <<PathX>>
    /\ pc = "init"

(***************************************************************************)
(* C17  Metric derivation: for every emitted record, when the average      *)
(* latency avg_ms is greater than 0, fps = 1000 / avg_ms and               *)
(* chars_per_second = total_chars * 1000 / avg_ms; when avg_ms is 0 or     *)
(* less, both are 0.  An average of 500 ms with 100 characters gives       *)
(* fps 2 and chars_per_second 200.                                         *)
(***************************************************************************)
\* the rational r times the rational a equals the integer k
ProductIs(r, a, k) == r.n * a.n = k * r.d * a.d

\* the printed value v (hundredths) is r rounded, r being k / a
PrintsQuotient(v, k, a) == 2 * Abs(v * a.n - 100 * k * a.d) <= a.n

MetricsComputed == pc \in {"save", "score", "parse"}

MetricsDerived ==
    MetricsComputed
    => /\ avg_inference_ms.d > 0
       /\ ProductIs(avg_inference_ms, Rat(Len(run_times), 1), SumOf3(run_times))
       /\ avg_inference_ms.n > 0
            => /\ ProductIs(avg_fps, avg_inference_ms, 1000)
               /\ ProductIs(chars_per_second, avg_inference_ms, total_chars * 1000)
       /\ avg_inference_ms.n <= 0
            => /\ avg_fps.n = 0
               /\ chars_per_second.n = 0
       /\ (avg_inference_ms = Rat(500, 1) /\ total_chars = 100)
            => /\ avg_fps = Rat(2, 1)
               /\ chars_per_second = Rat(200, 1)

\* a record written by this step carries the metrics of the current image
RecordCarriesMetrics ==
    (Len(out') > Len(out) /\ IsResultLine(out'[Len(out')]))
    => LET l == out'[Len(out')]
       IN  /\ MetricsComputed
           /\ l.total_chars = total_chars
           /\ avg_inference_ms.n > 0
                => /\ PrintsQuotient(l.fps, 1000, avg_inference_ms)
                   /\ PrintsQuotient(l.chars_per_second, total_chars * 1000,
                                     avg_inference_ms)
           /\ avg_inference_ms.n <= 0 => l.fps = 0 /\ l.chars_per_second = 0
           /\ (avg_inference_ms = Rat(500, 1) /\ total_chars = 100)
                => l.fps = 200 /\ l.chars_per_second = 20000

C17_MetricDerivation == []MetricsDerived /\ [][RecordCarriesMetrics]_vars

C17_Witness ==
    /\ pc = "stats"
    /\ Len(out) = 1
    /\ out[1].inference_ms = 0
    /\ out[1].total_chars = 100
    /\ out[1].fps = 0
    /\ out[1].chars_per_second = 0

C17_Example ==
    /\ pc = "stats"
    /\ Len(out) = 1
    /\ out[1].inference_ms = 50000
    /\ out[1].total_chars = 100
    /\ out[1].fps = 200
    /\ out[1].chars_per_second = 20000

(***************************************************************************)
(* C18  Aggregate arithmetic: over the list L of per-image average         *)
(* latencies, TOTAL_INFERENCE = sum(L), AVG_INFERENCE = sum(L) / len(L),   *)
(* AVG_FPS = 1000 / AVG_INFERENCE, BATCH_FPS = successful_count * 1000 /   *)
(* sum(L), min and max are the least and greatest element of L, and        *)
(* SUCCESS_RATE = 100 * successful_count / number of discovered images.    *)
(* L = [100, 200, 300] with 3 successes gives average 200, AVG_FPS 5 and   *)
(* BATCH_FPS 5.                                                            *)
(***************************************************************************)
\* the sum of a list of whole numbers of milliseconds
RECURSIVE WholeSum(_, _)
WholeSum(L, k) == IF k > Len(L) THEN 0 ELSE L[k].n + WholeSum(L, k + 1)

TimingValue(key) ==
    LET hits == {k \in TimingInfoLines : out[k].key = key}
    IN  out[CHOOSE k \in hits : TRUE].value

SummaryComputed == pc = "done" /\ engine = 1 /\ inference_times # << >>

AggregatesCorrect ==
    LET L == inference_times
        S == WholeSum(L, 1)
        n == NumImages
        succ == successful_count
    IN  /\ \A k \in 1..Len(L) : L[k].d = 1
        /\ summary.total_inference_time = Rat(S, 1)
        /\ ProductIs(summary.avg_inference_time, Rat(Len(L), 1), S)
        /\ ProductIs(summary.avg_fps, summary.avg_inference_time, 1000)
        /\ ProductIs(summary.total_fps, Rat(S, 1), succ * 1000)
        /\ \E k \in 1..Len(L) : summary.min_time = L[k]
        /\ \A k \in 1..Len(L) : ~RatLess(L[k], summary.min_time)
        /\ \E k \in 1..Len(L) : summary.max_time = L[k]
        /\ \A k \in 1..Len(L) : ~RatLess(summary.max_time, L[k])
        /\ ProductIs(summary.success_rate, Rat(n, 1), 100 * succ)
        /\ TimingValue("TOTAL_INFERENCE") = 100 * S
        /\ PrintsQuotient(TimingValue("AVG_INFERENCE"), S, Rat(Len(L), 1))
        /\ PrintsQuotient(TimingValue("AVG_FPS"), 1000 * Len(L), Rat(S, 1))
        /\ PrintsQuotient(TimingValue("BATCH_FPS"), 1000 * succ, Rat(S, 1))
        /\ PrintsQuotient(TimingValue("SUCCESS_RATE"), 100 * succ, Rat(n, 1))
        /\ (L = <<Rat(100, 1), Rat(200, 1), Rat(300, 1)>> /\ succ = 3)
             => /\ summary.avg_inference_time = Rat(200, 1)
                /\ summary.avg_fps = Rat(5, 1)
                /\ summary.total_fps = Rat(5, 1)

C18_AggregateArithmetic == SummaryComputed => AggregatesCorrect

C18_Witness ==
    /\ SummaryComputed
    /\ inference_times = <<Rat(100, 1), Rat(200, 1), Rat(300, 1)>>
    /\ successful_count = 3
    /\ summary.total_inference_time = Rat(600, 1)
    /\ summary.min_time = Rat(100, 1)
    /\ summary.max_time = Rat(300, 1)
    /\ TimingValue("AVG_INFERENCE") = 20000
    /\ TimingValue("AVG_FPS") = 500
    /\ TimingValue("BATCH_FPS") = 500
    /\ TimingValue("SUCCESS_RATE") = 10000

(***************************************************************************)
(* C19  All-success run: when every Predict call returns and every scorer  *)
(* command exits with status 0 and prints a 'SINGLE_ACC: ' line with a     *)
(* numeric character_accuracy, the n discovered images get exactly n       *)
(* PER_IMAGE_RESULT lines, each carrying the accuracy the scorer printed   *)
(* for its image, the summary reports SUCCESS_RATE 100, and the exit code  *)
(* is 0.                                                                   *)
(***************************************************************************)
\* the accuracy a scorer text carries, in units of 10^-4
PrintedAccuracy(text) ==
    CASE text = ScoredText("0.5") -> 5000
      [] text = ScoredText("1.0") -> 10000

ScorerSucceeded ==
    /\ pc = "parse"
    /\ scorerRun.ran /\ scorerRun.started /\ scorerRun.status = 0
    /\ result_str \in {ScoredText(tok) : tok \in NumberTokens}

AllSucceeded == RunFinished /\ \A p \in 1..NumImages : fault[p] = "none"

AllSuccessReport ==
    AllSucceeded
    => /\ Len(ResultLines) = NumImages
       /\ LinePositions = [p \in 1..NumImages |-> p]
       /\ \A p \in 1..NumImages : predictCalls[p] = Repetitions /\ scorerCalls[p] = 1
       /\ WrittenKeys = SummaryKeys
       /\ TimingValue("SUCCESS_RATE") = 10000
       /\ exit_code = 0

\* the step after a successful scorer command writes the line of the
\* current image with the accuracy the scorer printed
ScoredLineCarriesAccuracy ==
    (ScorerSucceeded /\ pc' # "parse")
    => /\ Len(out') = Len(out) + 1
       /\ SubSeq(out', 1, Len(out)) = out
       /\ out'[Len(out')].kind = "PER_IMAGE_RESULT"
       /\ out'[Len(out')].pos = i + 1
       /\ out'[Len(out')].accuracy = PrintedAccuracy(result_str)
       /\ fault'[i + 1] = "none"

C19_AllSuccessRun == []AllSuccessReport /\ [][ScoredLineCarriesAccuracy]_vars

C19_Witness ==
    /\ AllSucceeded
    /\ NumImages = 2
    /\ Len(ResultLines) = 2
    /\ ResultLines[1].accuracy = 5000
    /\ ResultLines[2].accuracy = 10000
    /\ TimingValue("SUCCESS_RATE") = 10000
    /\ exit_code = 0

(***************************************************************************)
(* C20  startup.sh rebuild: when startup.sh is invoked with the command    *)
(* 'rebuild' and an up-to-date executable is present, the previous build   *)
(* directory is cleaned and cmake and make are run before the batch        *)
(* benchmark is run.                                                       *)
(***************************************************************************)
\* the commands run before the first run of the benchmark
RanBeforeBenchmark ==
    LET at == CHOOSE k \in 1..Len(sh.ran) :
                  sh.ran[k] = "benchmark" /\ \A m \in 1..(k - 1) : sh.ran[m] # "benchmark"
    IN  {sh.ran[m] : m \in 1..(at - 1)}

BenchmarkRan == sh.pc # "off" /\ \E k \in 1..Len(sh.ran) : sh.ran[k] = "benchmark"

C20_RebuildForcesBuild ==
    (BenchmarkRan /\ sh.arg = "rebuild" /\ sh.exe_at_start = "up_to_date")
    => {"rm_build", "cmake", "make"} \subseteq RanBeforeBenchmark

(***************************************************************************)
(* C21  startup.sh tolerates processing failures: in benchmark mode the    *)
(* script exits with an error only on critical errors (environment         *)
(* activation, build, dataset verification), not when individual images    *)
(* fail; when the Benchmark executable reports that some image failed, the *)
(* script still extracts the TIMING_INFO metrics and generates the         *)
(* Markdown table.                                                         *)
(***************************************************************************)
ScriptRan(what) == \E k \in 1..Len(sh.ran) : sh.ran[k] = what

BenchmarkReportedFailure ==
    /\ sh.pc = "done"
    /\ sh.arg \in {"unset", "benchmark"}
    /\ ScriptRan("benchmark")
    /\ sh.images_failed > 0

C21_ToleratesImageFailures ==
    BenchmarkReportedFailure
    => /\ ScriptRan("extract_metrics")
       /\ ScriptRan("markdown")
       /\ sh.status = 0

(***************************************************************************)
(* C22  Sample count matches success count: at summary time, after any     *)
(* sequence of per-image outcomes, the number of latency samples that are  *)
(* aggregated equals successful_count, so that AVG_FPS and BATCH_FPS are   *)
(* equal in every summary.                                                 *)
(***************************************************************************)
C22_SamplesMatchSuccesses ==
    SummaryComputed
    => /\ Len(inference_times) = successful_count
       /\ summary.avg_fps = summary.total_fps
       /\ TimingValue("AVG_FPS") = TimingValue("BATCH_FPS")

(***************************************************************************)
(* C23  Counter partition: after each iteration of the per-image loop,     *)
(* successful_count + failed_count equals the number of images attempted   *)
(* so far, for every combination of outcomes; hence at the end the sum     *)
(* equals the number of discovered images.                                 *)
(***************************************************************************)
BetweenIterations ==
    /\ engine = 1
    /\ \/ pc = "run" /\ run = 0
       \/ pc \in {"stats", "done"}

C23_CounterPartition ==
    /\ BetweenIterations => successful_count + failed_count = i
    /\ LoopLeft => successful_count + failed_count = NumImages

(***************************************************************************)
(* C24  Per-image failures never end the batch: whatever fails on image i  *)
(* (Predict, printing or saving, the scorer command, a missing marker, the *)
(* parsing of the accuracy), the loop proceeds to image i+1; every         *)
(* discovered image is attempted exactly once and the run reaches the      *)
(* statistics step.                                                        *)
(***************************************************************************)
InLoop == pc \in {"run", "save", "score", "parse"}

\* the images whose iteration is over
Finished == 1..i

\* a step taken inside the loop stays in the iteration of image i+1 or ends
\* it and moves to image i+2, or to the statistics after the last image
StaysOrMovesOn ==
    InLoop
    => \/ i' = i /\ pc' \in {"run", "save", "score", "parse"}
       \/ /\ i' = i + 1
          /\ pc' = IF i + 1 < NumImages THEN "run" ELSE "stats"
          /\ run' = 0

\* an image is attempted in its own iteration only: not before, and never
\* again after its iteration is over
AttemptedInOwnIteration ==
    /\ \A p \in 1..NumImages : p > i + 1 => predictCalls[p] = 0
    /\ \A p \in 1..NumImages : p <= i => predictCalls[p] \in 1..Repetitions

NeverAttemptedAgain ==
    \A p \in Finished : /\ predictCalls'[p] = predictCalls[p]
                        /\ fault'[p] = fault[p]

\* the statistics step is entered from the loop only, after the last image
StatisticsReached ==
    /\ pc \in {"stats", "done"} /\ engine = 1 => i = NumImages
    /\ pc = "done" /\ engine = 1 => exit_code = ExitCode(failed_count)

C24_FailuresNeverEndBatch ==
    /\ [](engine = 1 => AttemptedInOwnIteration /\ StatisticsReached)
    /\ [][StaysOrMovesOn /\ NeverAttemptedAgain]_vars
    /\ [][pc' = "done" /\ engine' = 1 => pc = "stats"]_vars

C24_Witness ==
    /\ pc = "done"
    /\ NumImages = 2
    /\ fault = <<"bad_value", "predict">>
    /\ predictCalls = <<3, 1>>
    /\ i = 2
    /\ TimingInfoLines # {}

(***************************************************************************)
(* C25  Single engine initialization: the engine is constructed at most    *)
(* once in a run, every Predict call is made on that one instance, and no  *)
(* Predict call is made before its construction has completed.             *)
(***************************************************************************)
PredictCalled == \E p \in 1..NumImages : predictCalls[p] > 0

\* a step that calls Predict (whether it returns or raises)
PredictStep ==
    \E p \in 1..Len(predictCalls) : predictCalls'[p] > predictCalls[p]

ConstructedAtMostOnce ==
    engine' # engine => /\ engine = 0
                        /\ engine' = 1
                        /\ pc = "init"
                        /\ ~PredictCalled

PredictOnConstructedEngine == PredictStep => engine = 1 /\ engine' = 1

C25_SingleEngine ==
    /\ [](engine \in {0, 1} /\ (PredictCalled => engine = 1))
    /\ [][ConstructedAtMostOnce /\ PredictOnConstructedEngine]_vars

C25_Witness ==
    /\ pc = "done"
    /\ engine = 1
    /\ NumImages = 2
    /\ predictCalls = <<3, 3>>

(***************************************************************************)
(* C26  Scorer call protocol: the scorer is invoked at most once per       *)
(* attempted image; it is invoked only after all three Predict calls of    *)
(* the image have returned and every output of the first run has been      *)
(* saved to JSON; it is never invoked for an image whose inference raised. *)
(***************************************************************************)
\* a step that invokes the scorer command
ScorerStep ==
    \E p \in 1..Len(scorerCalls) : scorerCalls'[p] > scorerCalls[p]

AllOutputsSaved ==
    /\ j = Len(final_outputs)
    /\ final_outputs = lastPredict.first
    /\ Len(final_outputs) > 0
       => /\ Filename(imagePaths[i + 1]) \in DOMAIN disk
          /\ disk[Filename(imagePaths[i + 1])] = final_outputs[Len(final_outputs)]

ScorerAfterPredictsAndSaves ==
    ScorerStep
    => /\ scorerCalls[i + 1] = 0
       /\ scorerCalls' = [scorerCalls EXCEPT ![i + 1] = 1]
       /\ predictCalls[i + 1] = Repetitions
       /\ Len(run_times) = Repetitions
       /\ fault[i + 1] = "none"
       /\ AllOutputsSaved

ScorerAtMostOnce ==
    \A p \in 1..NumImages :
        /\ scorerCalls[p] <= 1
        /\ scorerCalls[p] = 1 => predictCalls[p] = Repetitions
        /\ fault[p] \in {"predict", "save"} => scorerCalls[p] = 0

C26_ScorerProtocol ==
    []ScorerAtMostOnce /\ [][ScorerAfterPredictsAndSaves]_vars

C26_Witness ==
    /\ pc = "done"
    /\ NumImages = 2
    /\ fault = <<"predict", "none">>
    /\ predictCalls = <<3, 3>>
    /\ scorerCalls = <<0, 1>>
    /\ DOMAIN disk # {}

(***************************************************************************)
(* C27  Escaped characters count as zero: total_chars is the sum, over the *)
(* text regions of the first-run result, of the characters of the          *)
(* transcript, where a backslash-escaped character of the serialized text  *)
(* (the backslash and the character it escapes) contributes 0.             *)
(***************************************************************************)
\* the characters of a serialized text, an escaped pair counting for 0
RECURSIVE EscapedAsZero(_, _)
EscapedAsZero(text, k) ==
    IF k > Len(text) THEN 0
    ELSE IF text[k] = "\\" THEN EscapedAsZero(text, k + 2)
    ELSE 1 + EscapedAsZero(text, k + 1)

RECURSIVE SumEscapedAsZero(_, _)
SumEscapedAsZero(texts, k) ==
    IF k > Len(texts) THEN 0
    ELSE EscapedAsZero(Escape(texts[k]), 1) + SumEscapedAsZero(texts, k + 1)

RECURSIVE UnescapedChars(_, _)
UnescapedChars(result, k) ==
    IF k > Len(result) THEN 0
    ELSE SumEscapedAsZero(result[k], 1) + UnescapedChars(result, k + 1)

\* the first repetition of the current image has been counted
FirstRunCounted == engine = 1 /\ i < NumImages /\ lastPredict.pos = i + 1

C27_EscapedCountZero ==
    FirstRunCounted => total_chars = UnescapedChars(lastPredict.first, 1)

(***************************************************************************)
(* C28  Character count equals transcript length: for a first-run result   *)
(* whose transcripts contain no backslash in serialized form, total_chars  *)
(* equals the sum of the lengths of all transcripts of rec_texts of every  *)
(* output, whatever the other characters are (']' and ',' included).       *)
(***************************************************************************)
NoBackslash(text) == \A k \in 1..Len(text) : text[k] # "\\"

SerializedWithoutBackslash(result) ==
    \A o \in 1..Len(result) : \A k \in 1..Len(result[o]) :
        NoBackslash(Escape(result[o][k]))

C28_CountIsTranscriptLength ==
    (FirstRunCounted /\ SerializedWithoutBackslash(lastPredict.first))
    => total_chars = TranscriptChars(lastPredict.first, 1)

(***************************************************************************)
(* C29  No deduplication: the discovered list is the concatenation, in     *)
(* argument order, of the paths of each argument; an image reachable from  *)
(* two arguments appears twice, is run through 3 Predict calls twice and   *)
(* gets two PER_IMAGE_RESULT lines.                                        *)
(***************************************************************************)
\* the paths of the arguments k.. taken one by one, in argument order
RECURSIVE PerArgument(_, _)
PerArgument(args, k) ==
    IF k > Len(args) THEN << >>
    ELSE ContributionInRun(args[k]) \o PerArgument(args, k + 1)

\* the positions of the discovered list that hold the path at position p
Occurrences(p) == {q \in 1..NumImages : imagePaths[q] = imagePaths[p]}

\* the PER_IMAGE_RESULT lines that name the image at position p
LinesNaming(p) ==
    {k \in 1..Len(out) : IsResultLine(out[k])
                         /\ out[k].filename = Filename(imagePaths[p])}

Concatenated == Discovered => imagePaths = PerArgument(argv, 1)

C29_NoDeduplication ==
    /\ Concatenated
    /\ LoopLeft
       => \A p \in 1..NumImages :
             /\ \A q \in Occurrences(p) : predictCalls[q] = Repetitions
             /\ Cardinality(LinesNaming(p)) = Cardinality(Occurrences(p))

(***************************************************************************)
(* C29, amended: the discovered list is the concatenation, in argument     *)
(* order, of the paths of each argument, without deduplication: an image   *)
(* reachable from two arguments appears twice and each occurrence is       *)
(* processed as an image of its own.  An occurrence is run through 3       *)
(* Predict calls unless Predict raises for it, and it gets its own         *)
(* PER_IMAGE_RESULT line unless its processing raises or its scorer exits  *)
(* with status 0 without the marker; an image whose two occurrences are    *)
(* processed without failure has 6 Predict calls and two lines.            *)
(***************************************************************************)
EachOccurrenceProcessed ==
    LoopLeft
    => \A p \in 1..NumImages :
          /\ predictCalls[p] \in 1..Repetitions
          /\ fault[p] # "predict" => predictCalls[p] = Repetitions
          /\ Cardinality(LinesNaming(p)) = Cardinality(Occurrences(p) \cap WithLine)
          /\ (\A q \in Occurrences(p) : fault[q] = "none")
             => Cardinality(LinesNaming(p)) = Cardinality(Occurrences(p))

C29_OccurrencesProcessedSeparately == Concatenated /\ EachOccurrenceProcessed

C29_Witness ==
    /\ pc = "done"
    /\ argv = <<PathD, PathDSA>>
    /\ imagePaths = <<PathDSA, PathDSA>>
    /\ predictCalls = <<3, 3>>
    /\ fault = <<"none", "none">>
    /\ Cardinality(LinesNaming(1)) = 2

(***************************************************************************)
(* C30  Termination: when the trees are finite and free of symbolic-link   *)
(* cycles and every engine and scorer call returns or raises, the run      *)
(* eventually terminates with an exit code, after at most 3 Predict calls  *)
(* and at most 1 scorer call per discovered image; there is no retry or    *)
(* waiting loop.                                                           *)
(***************************************************************************)
Terminated == pc = "done" /\ exit_code \in {0, 1, 134}

BoundedCalls ==
    \A p \in 1..NumImages : /\ predictCalls[p] <= Repetitions
                            /\ scorerCalls[p] <= 1

\* no step goes back: the image index never decreases, and within an image
\* the calls made so far only grow
NoWayBack ==
    /\ i' >= i
    /\ pc = "done" => pc' = "done"

C30_Termination ==
    /\ <>Terminated
    /\ [](BoundedCalls /\ (pc = "done" => exit_code \in {0, 1, 134}))
    /\ [][NoWayBack]_vars

C30_Witness ==
    /\ Terminated
    /\ exit_code = 1
    /\ NumImages = 2
    /\ predictCalls = <<3, 2>>
    /\ scorerCalls = <<1, 0>>
    /\ fault = <<"scorer_exec", "predict">>

====
